---- MODULE Spec2Model ----
(***************************************************************************)
(* Verification model of the Clarity audit suite front end:                *)
(*   ClarityLexer (src/src/parser/lexer.ts),                               *)
(*   EnhancedClarityParser (src/src/parser/parser.ts),                     *)
(*   EnhancedSemanticAnalyzer (src/unnamed/part_006),                      *)
(*   EnhancedStaticAnalyzer (src/unnamed/part_005),                        *)
(*   EnhancedClarityParserService (src/src/parser/types.ts).               *)
(* Source texts are TLA+ strings; charAt / substring are SubSeq.           *)
(***************************************************************************)
EXTENDS Integers, Sequences, FiniteSets, TLC

VARIABLES
  lexer,      \* a ClarityLexer: source, position, line, column, tokens
  lexpc,      \* position of its tokenize call: "idle", "scan", "done"
  parser,     \* an EnhancedClarityParser: tokens, current, errors, warnings, lexer
  ppc,        \* position of its parse call: "idle", "loop", "done", "hang"
  pbody,      \* parseProgram's local: the statements parsed so far
  presult,    \* the ParseResult the call returned
  analyzer,   \* an EnhancedSemanticAnalyzer: errors, warnings, typeEnvironment
  apc,        \* position of its analyze call: "idle", "collect", "analyze",
              \* "done", then "static" after the static analyzer has run
              \* ("threw" after it has thrown), "again" after it has run
              \* a second time on the same AST
  aast,       \* the AST handed to analyze, as the call has updated it so far
  aidx,       \* index of the next statement of the running pass
  aresult,    \* the SemanticAnalysisResult the call returned
  vulnerabilities,  \* what EnhancedStaticAnalyzer found in the analyzed AST
  issues,     \* the issues of its result
  callGraph,  \* the call graph of its result
  dataFlowGraph,  \* the data-flow graph of its result
  service,    \* an EnhancedClarityParserService: lexer, parser, semanticAnalyzer
  spc,        \* "idle" (just constructed), "ready" (after a call), "hang"
  calls,      \* number of calls the service has served
  sresult     \* the last call of the service: operation, source, result

lexVars == <<lexer, lexpc>>
parseVars == <<parser, ppc, pbody, presult>>
staticVars == <<vulnerabilities, issues, callGraph, dataFlowGraph>>
semVars == <<analyzer, apc, aast, aidx, aresult, staticVars>>
svcVars == <<service, spc, calls, sresult>>
vars == <<lexer, lexpc, parser, ppc, pbody, presult, analyzer, apc, aast, aidx,
          aresult, vulnerabilities, issues, callGraph, dataFlowGraph,
          service, spc, calls, sresult>>

-----------------------------------------------------------------------------
(* Bounds *)

MaxSrcLen == 2

MaxWords == 4

MaxErrors == 6

MaxStmts == 3

MaxCalls == 2

-----------------------------------------------------------------------------
(* Characters *)

Digits == {"0", "1", "2", "3", "4", "5", "6", "7", "8", "9"}

LowerAlpha == {"a", "b", "c", "d", "e", "f", "g", "h", "i", "j", "k", "l", "m",
               "n", "o", "p", "q", "r", "s", "t", "u", "v", "w", "x", "y", "z"}

UpperAlpha == {"A", "B", "C", "D", "E", "F", "G", "H", "I", "J", "K", "L", "M",
               "N", "O", "P", "Q", "R", "S", "T", "U", "V", "W", "X", "Y", "Z"}

IdentSymbols == {"-", "_", "!", "?", "+", "<", ">", "=", "/", "%", "*"}

\* peek() past the end returns the NUL character, which belongs to no class
NUL == "\\0"

isDigit(c) == c \in Digits

isHexDigit(c) == c \in Digits \cup {"a", "b", "c", "d", "e", "f"}
                              \cup {"A", "B", "C", "D", "E", "F"}

isAlpha(c) == c \in LowerAlpha \cup UpperAlpha

isAlphaNumeric(c) == isAlpha(c) \/ isDigit(c)

isIdentChar(c) == isAlphaNumeric(c) \/ c \in IdentSymbols

\* String.prototype.charAt(i): the empty string when i is out of range
charAt(src, i) == IF i >= 0 /\ i < Len(src) THEN SubSeq(src, i + 1, i + 1) ELSE ""

\* String.prototype.substring(a, b) for 0 <= a <= b
substring(src, a, b) ==
  LET hi == IF b > Len(src) THEN Len(src) ELSE b
  IN  IF a >= hi THEN "" ELSE SubSeq(src, a + 1, hi)

keywords ==
  {"define-constant", "define-private", "define-public", "define-read-only",
   "define-map", "define-data-var", "define-non-fungible-token", "define-fungible-token",
   "define-trait", "use-trait", "impl-trait",
   "let", "begin", "if", "match", "try", "unwrap!", "unwrap-panic",
   "ok", "err", "some", "none", "true", "false",
   "and", "or", "not", "is-eq", "is-some", "is-none", "is-ok", "is-err",
   "map-get?", "map-set", "map-insert", "map-delete",
   "var-get", "var-set",
   "contract-call?", "as-contract", "tx-sender", "contract-caller",
   "block-height", "stx-get-balance", "stx-transfer?",
   "ft-mint?", "ft-transfer?", "ft-burn?", "ft-get-balance",
   "nft-mint?", "nft-transfer?", "nft-burn?", "nft-get-owner?",
   "asserts!", "print", "list", "append", "concat", "len",
   "filter", "map", "fold", "element-at", "index-of",
   "get", "merge", "tuple", "default-to",
   "+", "-", "*", "/", "mod", "pow", "sqrti",
   "<", "<=", ">", ">=", "to-int", "to-uint",
   "buff-to-int-be", "buff-to-int-le", "buff-to-uint-be", "buff-to-uint-le",
   "int-to-ascii", "int-to-utf8", "string-to-int?", "string-to-uint?",
   "principal-of?", "principal-construct?"}

-----------------------------------------------------------------------------
(* ClarityLexer *)

LexerNew == [source |-> "", position |-> 0, line |-> 1, column |-> 1, tokens |-> <<>>]

lexReset(lx) ==
  [lx EXCEPT !.source = "", !.position = 0, !.line = 1, !.column = 1, !.tokens = <<>>]

lexIsAtEnd(lx) == lx.position >= Len(lx.source)

lexAdvance(lx) == [lx EXCEPT !.position = @ + 1, !.column = @ + 1]

lexPeek(lx) == IF lexIsAtEnd(lx) THEN NUL ELSE charAt(lx.source, lx.position)

lexGetCurrentLocation(lx) ==
  [line |-> lx.line, column |-> lx.column, offset |-> lx.position]

\* addToken with an explicit location and raw text; raw || value
addTokenAt(lx, type, value, location, raw) ==
  [lx EXCEPT !.tokens = Append(@, [type |-> type, value |-> value,
                                   location |-> location,
                                   raw |-> IF raw = "" THEN value ELSE raw])]

\* addToken without a location: location || getCurrentLocation()
addToken(lx, type, value) ==
  addTokenAt(lx, type, value, lexGetCurrentLocation(lx), "")

\* while (isX(peek())) advance();  -- peek() is NUL at the end
RECURSIVE advanceWhileIn(_, _)
advanceWhileIn(lx, class) ==
  IF lexPeek(lx) \in class THEN advanceWhileIn(lexAdvance(lx), class) ELSE lx

\* while (!isAtEnd() && peek() is not a stop character) advance();
RECURSIVE advanceUntil(_, _)
advanceUntil(lx, stop) ==
  IF ~lexIsAtEnd(lx) /\ lexPeek(lx) \notin stop
  THEN advanceUntil(lexAdvance(lx), stop) ELSE lx

skipComment(lx) == advanceUntil(lx, {"\n"})

\* the scanning loop of scanString: newlines inside the literal bump the line
RECURSIVE scanStringBody(_)
scanStringBody(lx) ==
  IF lexPeek(lx) # "\"" /\ ~lexIsAtEnd(lx)
  THEN LET l1 == IF lexPeek(lx) = "\n"
                 THEN [lx EXCEPT !.line = @ + 1, !.column = 1] ELSE lx
       IN  scanStringBody(lexAdvance(l1))
  ELSE lx

\* a variant of scanString that closes the token stream itself when the
\* source ends inside the literal
scanStringEndingStream(lx) ==
  LET start == lx.position - 1
      startLocation == [lexGetCurrentLocation(lx) EXCEPT !.column = lx.column - 1]
      isUtf8 == lx.position >= 2 /\ charAt(lx.source, lx.position - 2) = "u"
      l1 == scanStringBody(lx)
  IN  IF lexIsAtEnd(l1) THEN addToken(l1, "EOF", "")
      ELSE LET l2 == lexAdvance(l1)
           IN  addTokenAt(l2, IF isUtf8 THEN "STRING_UTF8" ELSE "STRING_ASCII",
                          substring(l2.source, start + 1, l2.position - 1),
                          startLocation,
                          substring(l2.source, start, l2.position))

scanString(lx) ==
  LET start == lx.position - 1
      startLocation == [lexGetCurrentLocation(lx) EXCEPT !.column = lx.column - 1]
      isUtf8 == lx.position >= 2 /\ charAt(lx.source, lx.position - 2) = "u"
      l1 == scanStringBody(lx)
  IN  IF lexIsAtEnd(l1) THEN l1
      ELSE LET l2 == lexAdvance(l1)
           IN  addTokenAt(l2, IF isUtf8 THEN "STRING_UTF8" ELSE "STRING_ASCII",
                          substring(l2.source, start + 1, l2.position - 1),
                          startLocation,
                          substring(l2.source, start, l2.position))

scanNumber(lx) ==
  LET start == lx.position - 1
      startLocation == [lexGetCurrentLocation(lx) EXCEPT !.column = lx.column - 1]
      l1 == advanceWhileIn(lx, Digits)
  IN  addTokenAt(l1, "INT", substring(l1.source, start, l1.position), startLocation, "")

scanUint(lx) ==
  LET start == lx.position - 1
      startLocation == [lexGetCurrentLocation(lx) EXCEPT !.column = lx.column - 1]
      l1 == advanceWhileIn(lx, Digits)
  IN  addTokenAt(l1, "UINT", substring(l1.source, start + 1, l1.position), startLocation,
                 substring(l1.source, start, l1.position))

scanHexBuffer(lx) ==
  LET start == lx.position - 2
      startLocation == [lexGetCurrentLocation(lx) EXCEPT !.column = lx.column - 2]
      l1 == advanceWhileIn(lx, {c \in Digits \cup LowerAlpha \cup UpperAlpha : isHexDigit(c)})
  IN  addTokenAt(l1, "BUFF", substring(l1.source, start + 2, l1.position), startLocation,
                 substring(l1.source, start, l1.position))

scanPrincipal(lx) ==
  LET start == lx.position - 1
      startLocation == [lexGetCurrentLocation(lx) EXCEPT !.column = lx.column - 1]
      l1 == advanceUntil(lx, {" ", ")", "\n"})
  IN  addTokenAt(l1, "PRINCIPAL", substring(l1.source, start + 1, l1.position), startLocation,
                 substring(l1.source, start, l1.position))

scanIdentifier(lx) ==
  LET start == lx.position - 1
      startLocation == [lexGetCurrentLocation(lx) EXCEPT !.column = lx.column - 1]
      l1 == advanceWhileIn(lx, {c \in Digits \cup LowerAlpha \cup UpperAlpha \cup IdentSymbols :
                                  isIdentChar(c)})
      text == substring(l1.source, start, l1.position)
  IN  IF text \in {"true", "false"}
      THEN addTokenAt(l1, "BOOL", text, startLocation, "")
      ELSE addTokenAt(l1, IF text \in keywords THEN "KEYWORD" ELSE "IDENTIFIER",
                      text, startLocation, "")

SingleCharTokens ==
  [c \in {"(", ")", "{", "}", ".", ",", ":"} |->
     CASE c = "(" -> "LPAREN" [] c = ")" -> "RPAREN"
       [] c = "{" -> "LBRACE" [] c = "}" -> "RBRACE"
       [] c = "." -> "DOT"    [] c = "," -> "COMMA"
       [] OTHER -> "COLON"]

scanToken(lx) ==
  LET startLocation == lexGetCurrentLocation(lx)
      char == charAt(lx.source, lx.position)
      l1 == lexAdvance(lx)
  IN  CASE char \in {" ", "\r", "\t"} -> l1
        [] char = "\n" -> [l1 EXCEPT !.line = @ + 1, !.column = 1]
        [] char \in DOMAIN SingleCharTokens ->
             addTokenAt(l1, SingleCharTokens[char], char, startLocation, "")
        [] char = ";" -> skipComment(l1)
        [] char = "\"" -> scanString(l1)
        [] char = "0" -> IF lexPeek(l1) = "x"
                         THEN scanHexBuffer(lexAdvance(l1))
                         ELSE scanNumber(l1)
        [] char = "u" -> IF isDigit(lexPeek(l1)) THEN scanUint(l1) ELSE scanIdentifier(l1)
        [] char = "'" -> scanPrincipal(l1)
        [] OTHER -> IF isDigit(char) THEN scanNumber(l1)
                    ELSE IF isAlpha(char) \/ char \in IdentSymbols THEN scanIdentifier(l1)
                    ELSE lexAdvance(l1)

\* the while loop of tokenize followed by the end-of-file token
RECURSIVE scanAll(_)
scanAll(lx) ==
  IF lexIsAtEnd(lx) THEN addToken(lx, "EOF", "") ELSE scanAll(scanToken(lx))

\* tokenize(source) on a lexer instance in state lx: the instance afterwards
tokenize(lx, source) == scanAll([lexReset(lx) EXCEPT !.source = source])

-----------------------------------------------------------------------------
(* EnhancedClarityParser: token navigation *)

\* a parser instance owns a lexer of its own (constructor, parser.ts:20-22)
ParserNew == [tokens |-> <<>>, current |-> 0, errors |-> <<>>, warnings |-> <<>>,
              lexer |-> LexerNew]

\* a variant of reset that leaves the error list of the previous call
parserResetKeepingErrors(p) ==
  [p EXCEPT !.tokens = <<>>, !.current = 0, !.warnings = <<>>, !.lexer = lexReset(@)]

parserReset(p) ==
  [p EXCEPT !.tokens = <<>>, !.current = 0, !.errors = <<>>, !.warnings = <<>>,
            !.lexer = lexReset(@)]

peek(p) == p.tokens[p.current + 1]

\* tokens[current - 1]; undefined when current = 0 (callers then throw a TypeError)
previous(p) == p.tokens[p.current]

isAtEnd(p) == peek(p).type = "EOF"

advance(p) == IF ~isAtEnd(p) THEN [p EXCEPT !.current = @ + 1] ELSE p

check(p, type) == IF isAtEnd(p) THEN FALSE ELSE peek(p).type = type

getCurrentLocation(p) == peek(p).location

addError(p, message, location) ==
  [p EXCEPT !.errors = Append(@, [message |-> message, location |-> location,
                                  severity |-> "error", code |-> "PARSE_ERROR"])]

\* consume(type, message): the parser afterwards and the token returned
consume(p, type, message) ==
  IF check(p, type)
  THEN [p |-> advance(p), tok |-> previous(advance(p))]
  ELSE [p |-> addError(p, message, getCurrentLocation(p)), tok |-> peek(p)]

RECURSIVE skipWhitespace(_)
skipWhitespace(p) ==
  IF check(p, "WHITESPACE") \/ check(p, "NEWLINE") \/ check(p, "COMMENT")
  THEN skipWhitespace(advance(p)) ELSE p

RECURSIVE synchronizeLoop(_)
synchronizeLoop(p) ==
  IF isAtEnd(p) THEN p
  ELSE IF previous(p).type = "NEWLINE" THEN p
  ELSE IF peek(p).type = "KEYWORD" /\ substring(peek(p).value, 0, 7) = "define-" THEN p
  ELSE synchronizeLoop(advance(p))

synchronize(p) == synchronizeLoop(advance(p))

-----------------------------------------------------------------------------
(* AST nodes.  Source ranges are not part of the model. *)

\* null / undefined
Null == [type |-> "null"]

Undefined == [type |-> "undefined"]

createIdentifier(name) == [type |-> "identifier", name |-> name]

\* outcome of a parse function: the parser afterwards, the node returned, and
\* st = "ok" (returned), "throw" (a JavaScript exception is propagating) or
\* "hang" (control is inside a loop whose iteration leaves `current` unchanged;
\* an iteration reads only tokens and current, so it repeats forever)
Ret(p, node) == [p |-> p, node |-> node, st |-> "ok"]

Throw(p) == [p |-> p, node |-> Null, st |-> "throw"]

Hang(p) == [p |-> p, node |-> Null, st |-> "hang"]

\* BigInt(text) for a run of decimal digits
RECURSIVE BigInt(_)
BigInt(text) ==
  IF text = "" THEN 0
  ELSE LET d == SubSeq(text, Len(text), Len(text))
           v == CHOOSE n \in 0..9 : SubSeq("0123456789", n + 1, n + 1) = d
       IN  10 * BigInt(SubSeq(text, 1, Len(text) - 1)) + v

isDecimal(text) == \A i \in 1..Len(text) : isDigit(SubSeq(text, i, i))

hexDigitValue(c) ==
  CHOOSE n \in 0..15 : SubSeq("0123456789abcdef", n + 1, n + 1) = c
                       \/ SubSeq("0123456789ABCDEF", n + 1, n + 1) = c

\* new Uint8Array(hex.length / 2) filled with parseInt(hex.substr(i, 2), 16);
\* ToIndex truncates the length, so an odd trailing digit is dropped
hexToUint8Array(hex) ==
  [i \in 1..(Len(hex) \div 2) |->
     16 * hexDigitValue(SubSeq(hex, 2 * i - 1, 2 * i - 1))
        + hexDigitValue(SubSeq(hex, 2 * i, 2 * i))]

mapTypeNameToKind(typeName) ==
  IF typeName \in {"uint", "int", "bool", "principal"} THEN typeName ELSE "custom"

parseType(p) ==
  IF check(p, "IDENTIFIER")
  THEN Ret(advance(p), [type |-> "clarity-type",
                        kind |-> mapTypeNameToKind(previous(advance(p)).value)])
  ELSE Ret(addError(p, "Expected type", getCurrentLocation(p)),
           [type |-> "clarity-type", kind |-> "uint"])

parseIdentifier(p) == Ret(advance(p), createIdentifier(previous(advance(p)).value))

\* parseLiteral: advance() and switch on the type of the token returned
parseLiteral(p) ==
  LET p1 == advance(p)
  IN  IF p1.current = 0 THEN Throw(p1)
      ELSE LET token == previous(p1)
           IN  CASE token.type = "UINT" ->
                      IF isDecimal(token.value)
                      THEN Ret(p1, [type |-> "uint-literal", value |-> BigInt(token.value),
                                    raw |-> token.raw])
                      ELSE Throw(p1)
                 [] token.type = "INT" ->
                      IF isDecimal(token.value)
                      THEN Ret(p1, [type |-> "int-literal", value |-> BigInt(token.value),
                                    raw |-> token.raw])
                      ELSE Throw(p1)
                 [] token.type = "BOOL" ->
                      Ret(p1, [type |-> "bool-literal", value |-> (token.value = "true")])
                 [] token.type = "STRING_ASCII" ->
                      Ret(p1, [type |-> "string-literal", value |-> token.value,
                               encoding |-> "ascii", raw |-> token.raw])
                 [] token.type = "STRING_UTF8" ->
                      Ret(p1, [type |-> "string-literal", value |-> token.value,
                               encoding |-> "utf8", raw |-> token.raw])
                 [] token.type = "BUFF" ->
                      Ret(p1, [type |-> "buff-literal", value |-> hexToUint8Array(token.value),
                               raw |-> token.raw])
                 [] token.type = "PRINCIPAL" ->
                      Ret(p1, [type |-> "principal-literal", value |-> token.value,
                               isContract |-> (\E i \in 1..Len(token.value) :
                                                 SubSeq(token.value, i, i) = ".")])
                 [] OTHER ->
                      Ret(addError(p1, "Unexpected literal type: " \o token.type,
                                   token.location),
                          [type |-> "bool-literal", value |-> FALSE])

\* a call whose outcome r is not "ok" ends its caller with that outcome (the
\* exception propagates, the loop never ends); otherwise the caller goes on
Then(r, Continue(_)) == IF r.st # "ok" THEN r ELSE Continue(r)

\* const r = <call>; <rest of the body>
With(r, Continue(_)) == Continue(r)

-----------------------------------------------------------------------------
(* EnhancedClarityParser: expressions *)

RECURSIVE parseExpression(_), parseParenthesizedExpression(_), parseItem(_, _),
          loopUntilRParen(_, _, _), loopWhileLParen(_, _, _),
          parseLetExpression(_), parseBinding(_), parseBeginExpression(_),
          parseIfExpression(_), parseMatchExpression(_), parseMatchArm(_),
          parsePattern(_), parseListExpression(_), parseTupleExpression(_),
          parseTupleField(_), parseFunctionCall(_), parseParameter(_)

parseExpression(p) ==
  IF check(p, "LPAREN") THEN parseParenthesizedExpression(p)
  ELSE IF check(p, "IDENTIFIER") THEN parseIdentifier(p)
  ELSE IF \E t \in {"UINT", "INT", "BOOL", "STRING_ASCII", "STRING_UTF8", "BUFF", "PRINCIPAL"} :
            check(p, t)
       THEN parseLiteral(p)
  ELSE \* addError and a dummy identifier; no token is consumed
       Ret(addError(p, "Expected expression", getCurrentLocation(p)),
           createIdentifier("error"))

parseParenthesizedExpression(p) ==
  LET p1 == consume(p, "LPAREN", "Expected \"(\"").p
  IN  IF check(p1, "KEYWORD")
      THEN LET keyword == peek(p1).value
           IN  CASE keyword = "let"   -> parseLetExpression(p1)
                 [] keyword = "begin" -> parseBeginExpression(p1)
                 [] keyword = "if"    -> parseIfExpression(p1)
                 [] keyword = "match" -> parseMatchExpression(p1)
                 [] keyword = "list"  -> parseListExpression(p1)
                 [] keyword = "tuple" -> parseTupleExpression(p1)
                 [] OTHER -> parseFunctionCall(p1)
      ELSE parseFunctionCall(p1)

\* the element parsed by one iteration of a loop
parseItem(p, kind) ==
  CASE kind = "expression"  -> parseExpression(p)
    [] kind = "match-arm"   -> parseMatchArm(p)
    [] kind = "tuple-field" -> parseTupleField(p)
    [] kind = "binding"     -> parseBinding(p)
    [] kind = "parameter"   -> parseParameter(p)
    [] kind = "skip"        -> Ret(advance(p), Null)

\* while (!check(RPAREN)) items.push(parseItem());  node = the items
loopUntilRParen(p, kind, items) ==
  IF check(p, "RPAREN") THEN Ret(p, items)
  ELSE Then(parseItem(p, kind),
            LAMBDA r : IF r.p.current = p.current THEN Hang(r.p)
                       ELSE loopUntilRParen(r.p, kind, Append(items, r.node)))

\* while (check(LPAREN)) items.push(parseItem());  node = the items
loopWhileLParen(p, kind, items) ==
  IF ~check(p, "LPAREN") THEN Ret(p, items)
  ELSE Then(parseItem(p, kind),
            LAMBDA r : IF r.p.current = p.current THEN Hang(r.p)
                       ELSE loopWhileLParen(r.p, kind, Append(items, r.node)))

parseLetExpression(p) ==
  LET p1 == consume(p, "KEYWORD", "Expected \"let\"").p
      p2 == consume(p1, "LPAREN", "Expected \"(\" before let bindings").p
  IN  Then(loopWhileLParen(p2, "binding", <<>>), LAMBDA bindings :
      Then(loopUntilRParen(consume(bindings.p, "RPAREN",
                                   "Expected \")\" after let bindings").p,
                           "expression", <<>>), LAMBDA body :
      Ret(consume(body.p, "RPAREN", "Expected \")\" after let body").p,
          [type |-> "let-expression", bindings |-> bindings.node, body |-> body.node])))

parseBinding(p) ==
  LET p1 == consume(p, "LPAREN", "Expected \"(\" before binding").p
      c2 == consume(p1, "IDENTIFIER", "Expected binding name")
  IN  Then(parseExpression(c2.p), LAMBDA value :
      Ret(consume(value.p, "RPAREN", "Expected \")\" after binding").p,
          [type |-> "binding", name |-> c2.tok.value, value |-> value.node]))

parseBeginExpression(p) ==
  LET p1 == consume(p, "KEYWORD", "Expected \"begin\"").p
  IN  Then(loopUntilRParen(p1, "expression", <<>>), LAMBDA body :
      Ret(consume(body.p, "RPAREN", "Expected \")\" after begin body").p,
          [type |-> "begin-expression", body |-> body.node, canFail |-> FALSE]))

parseIfExpression(p) ==
  LET p1 == consume(p, "KEYWORD", "Expected \"if\"").p
  IN  Then(parseExpression(p1), LAMBDA condition :
      Then(parseExpression(condition.p), LAMBDA then :
      Then(IF ~check(then.p, "RPAREN") THEN parseExpression(then.p)
           ELSE Ret(then.p, Undefined), LAMBDA else :
      Ret(consume(else.p, "RPAREN", "Expected \")\" after if expression").p,
          [type |-> "if-expression", condition |-> condition.node,
           then |-> then.node, else |-> else.node]))))

parseMatchExpression(p) ==
  LET p1 == consume(p, "KEYWORD", "Expected \"match\"").p
  IN  Then(parseExpression(p1), LAMBDA expression :
      Then(loopUntilRParen(expression.p, "match-arm", <<>>), LAMBDA arms :
      Ret(consume(arms.p, "RPAREN", "Expected \")\" after match expression").p,
          [type |-> "match-expression", expression |-> expression.node,
           arms |-> arms.node])))

parseMatchArm(p) ==
  Then(parsePattern(p), LAMBDA pattern :
  Then(parseExpression(pattern.p), LAMBDA body :
  Ret(body.p, [type |-> "match-arm", pattern |-> pattern.node, body |-> body.node])))

parsePattern(p) ==
  IF check(p, "KEYWORD")
  THEN LET p1 == advance(p)
           keyword == previous(p1).value
       IN  IF keyword \in {"ok", "err", "some"}
           THEN Then(parsePattern(p1), LAMBDA inner :
                Ret(inner.p, [type |-> keyword \o "-pattern", value |-> inner.node]))
           ELSE IF keyword = "none" THEN Ret(p1, [type |-> "none-pattern"])
           ELSE Ret(addError(p1, "Unknown pattern keyword: " \o keyword, previous(p1).location),
                    [type |-> "none-pattern"])
  ELSE IF check(p, "IDENTIFIER")
  THEN Ret(advance(p), [type |-> "identifier-pattern", name |-> previous(advance(p)).value])
  ELSE Then(parseLiteral(p), LAMBDA literal :
       Ret(literal.p, [type |-> "literal-pattern", value |-> literal.node]))

parseListExpression(p) ==
  LET p1 == consume(p, "KEYWORD", "Expected \"list\"").p
  IN  Then(loopUntilRParen(p1, "expression", <<>>), LAMBDA elements :
      Ret(consume(elements.p, "RPAREN", "Expected \")\" after list expression").p,
          [type |-> "list-expression", elements |-> elements.node]))

parseTupleExpression(p) ==
  LET p1 == consume(p, "KEYWORD", "Expected \"tuple\"").p
  IN  Then(loopUntilRParen(p1, "tuple-field", <<>>), LAMBDA fields :
      Ret(consume(fields.p, "RPAREN", "Expected \")\" after tuple expression").p,
          [type |-> "tuple-expression", fields |-> fields.node]))

parseTupleField(p) ==
  LET p1 == consume(p, "LPAREN", "Expected \"(\" before tuple field").p
      c2 == consume(p1, "IDENTIFIER", "Expected field name")
  IN  Then(parseExpression(c2.p), LAMBDA value :
      Ret(consume(value.p, "RPAREN", "Expected \")\" after tuple field").p,
          [type |-> "tuple-field", name |-> c2.tok.value, value |-> value.node]))

parseFunctionCall(p) ==
  Then(parseExpression(p), LAMBDA functionExpr :
  Then(loopUntilRParen(functionExpr.p, "expression", <<>>), LAMBDA args :
  Ret(consume(args.p, "RPAREN", "Expected \")\" after function call").p,
      [type |-> "function-call", function |-> functionExpr.node,
       arguments |-> args.node, isBuiltin |-> FALSE,
       isExternal |-> FALSE, canFail |-> FALSE, sideEffects |-> <<>>])))

parseParameter(p) ==
  LET p1 == consume(p, "LPAREN", "Expected \"(\" before parameter").p
      c2 == consume(p1, "IDENTIFIER", "Expected parameter name")
      paramType == parseType(c2.p)
  IN  Ret(consume(paramType.p, "RPAREN", "Expected \")\" after parameter").p,
          [type |-> "parameter", name |-> c2.tok.value, paramType |-> paramType.node])

-----------------------------------------------------------------------------
(* EnhancedClarityParser: top-level statements *)

parseConstantDefinition(p) ==
  LET c1 == consume(p, "IDENTIFIER", "Expected constant name")
  IN  Then(parseExpression(c1.p), LAMBDA value :
      Ret(consume(value.p, "RPAREN", "Expected \")\" after constant definition").p,
          [type |-> "constant-definition", name |-> c1.tok.value,
           value |-> value.node, used |-> FALSE]))

parseFunctionDefinition(p, defineType) ==
  LET p1 == consume(p, "LPAREN", "Expected \"(\" before function signature").p
      c2 == consume(p1, "IDENTIFIER", "Expected function name")
  IN  Then(loopWhileLParen(c2.p, "parameter", <<>>), LAMBDA parameters :
      Then(loopUntilRParen(consume(parameters.p, "RPAREN",
                                   "Expected \")\" after function signature").p,
                           "expression", <<>>), LAMBDA body :
      Ret(consume(body.p, "RPAREN", "Expected \")\" after function body").p,
          [type |-> "function-definition", name |-> c2.tok.value,
           visibility |-> CASE defineType = "define-private" -> "private"
                            [] defineType = "define-public" -> "public"
                            [] OTHER -> "read-only",
           parameters |-> parameters.node, body |-> body.node,
           callsExternal |-> FALSE, modifiesState |-> FALSE, canFail |-> FALSE])))

parseMapDefinition(p) ==
  LET c1 == consume(p, "IDENTIFIER", "Expected map name")
      keyType == parseType(c1.p)
      valueType == parseType(keyType.p)
  IN  Ret(consume(valueType.p, "RPAREN", "Expected \")\" after map definition").p,
          [type |-> "map-definition", name |-> c1.tok.value, keyType |-> keyType.node,
           valueType |-> valueType.node, accessed |-> FALSE, modified |-> FALSE])

parseDataVarDefinition(p) ==
  LET c1 == consume(p, "IDENTIFIER", "Expected variable name")
      varType == parseType(c1.p)
  IN  Then(parseExpression(varType.p), LAMBDA initialValue :
      Ret(consume(initialValue.p, "RPAREN", "Expected \")\" after data var definition").p,
          [type |-> "data-var-definition", name |-> c1.tok.value,
           varType |-> varType.node, initialValue |-> initialValue.node,
           accessed |-> FALSE, modified |-> FALSE]))

parseNftDefinition(p) ==
  LET c1 == consume(p, "IDENTIFIER", "Expected NFT name")
      tokenType == parseType(c1.p)
  IN  Ret(consume(tokenType.p, "RPAREN", "Expected \")\" after NFT definition").p,
          [type |-> "nft-definition", name |-> c1.tok.value, tokenType |-> tokenType.node])

parseFtDefinition(p) ==
  LET c1 == consume(p, "IDENTIFIER", "Expected FT name")
  IN  Then(IF ~check(c1.p, "RPAREN") THEN parseExpression(c1.p)
           ELSE Ret(c1.p, Undefined), LAMBDA totalSupply :
      Ret(consume(totalSupply.p, "RPAREN", "Expected \")\" after FT definition").p,
          [type |-> "ft-definition", name |-> c1.tok.value,
           totalSupply |-> totalSupply.node]))

parseTraitDefinition(p) ==
  LET c1 == consume(p, "IDENTIFIER", "Expected trait name")
  IN  Then(loopUntilRParen(c1.p, "skip", <<>>), LAMBDA skipped :
      Ret(consume(skipped.p, "RPAREN", "Expected \")\" after trait definition").p,
          [type |-> "trait-definition", name |-> c1.tok.value, functions |-> <<>>]))

parseUseTrait(p) ==
  LET c1 == consume(p, "IDENTIFIER", "Expected trait alias")
  IN  Then(parseExpression(c1.p), LAMBDA contractPrincipal :
      Ret(consume(contractPrincipal.p, "RPAREN", "Expected \")\" after use-trait").p,
          [type |-> "use-trait", name |-> c1.tok.value,
           contractPrincipal |-> contractPrincipal.node]))

parseImplTrait(p) ==
  LET c1 == consume(p, "IDENTIFIER", "Expected trait name")
  IN  Then(parseExpression(c1.p), LAMBDA contractPrincipal :
      Ret(consume(contractPrincipal.p, "RPAREN", "Expected \")\" after impl-trait").p,
          [type |-> "impl-trait", traitName |-> c1.tok.value,
           contractPrincipal |-> contractPrincipal.node]))

parseParenthesizedStatement(p) ==
  LET p1 == consume(p, "LPAREN", "Expected \"(\"").p
  IN  IF ~check(p1, "KEYWORD")
      THEN Ret(addError(p1, "Expected keyword after \"(\"", getCurrentLocation(p1)), Null)
      ELSE LET p2 == advance(p1)
               keyword == previous(p2).value
           IN  CASE keyword = "define-constant" -> parseConstantDefinition(p2)
                 [] keyword \in {"define-private", "define-public", "define-read-only"} ->
                      parseFunctionDefinition(p2, keyword)
                 [] keyword = "define-map" -> parseMapDefinition(p2)
                 [] keyword = "define-data-var" -> parseDataVarDefinition(p2)
                 [] keyword = "define-non-fungible-token" -> parseNftDefinition(p2)
                 [] keyword = "define-fungible-token" -> parseFtDefinition(p2)
                 [] keyword = "define-trait" -> parseTraitDefinition(p2)
                 [] keyword = "use-trait" -> parseUseTrait(p2)
                 [] keyword = "impl-trait" -> parseImplTrait(p2)
                 [] OTHER -> Ret(addError(p2, "Unknown top-level keyword: " \o keyword,
                                          previous(p2).location), Null)

parseTopLevelStatement(p) ==
  IF check(p, "LPAREN") THEN parseParenthesizedStatement(p)
  ELSE Ret(addError(p, "Expected top-level statement", getCurrentLocation(p)), Null)

\* one iteration of the while loop of parseProgram (parser.ts:87-99): node is
\* the body afterwards; an exception is caught here and answered by synchronize
topLevelIteration(p, body) ==
  LET caught(r) ==
        CASE r.st = "hang"  -> r
          [] r.st = "throw" -> Ret(skipWhitespace(synchronize(r.p)), body)
          [] OTHER -> Ret(skipWhitespace(r.p),
                          IF r.node # Null THEN Append(body, r.node) ELSE body)
  IN  caught(parseTopLevelStatement(p))

\* after the loop: end = getPreviousLocation() throws when no token was consumed
finishProgram(p, body) ==
  IF p.current = 0 THEN Throw(p)
  ELSE Ret(p, [type |-> "program", body |-> body])

RECURSIVE programLoop(_, _)
programLoop(p, body) ==
  IF isAtEnd(p) THEN finishProgram(p, body)
  ELSE Then(topLevelIteration(p, body),
            LAMBDA r : IF r.p.current = p.current THEN Hang(r.p)
                       ELSE programLoop(r.p, r.node))

parseProgram(p) == programLoop(skipWhitespace(p), <<>>)

\* a variant of the success flag that looks at the warnings only
parseSuccessOnWarnings(errors, warnings) == Len(warnings) = 0

\* success: this.errors.length === 0
parseSuccess(errors, warnings) == Len(errors) = 0

\* the record returned by parse / parseTokens once parseProgram has ended
\* (returned or thrown); a hang returns nothing
parseReturn(r) ==
  IF r.st = "throw"
  THEN LET p1 == addError(r.p, "Unexpected parsing error", getCurrentLocation(r.p))
       IN  [p |-> p1, st |-> "ok",
            result |-> [ast |-> Null, errors |-> p1.errors, warnings |-> p1.warnings,
                        success |-> FALSE]]
  ELSE IF r.st = "hang"
  THEN [p |-> r.p, st |-> "hang", result |-> Null]
  ELSE [p |-> r.p, st |-> "ok",
        result |-> [ast |-> r.node, errors |-> r.p.errors, warnings |-> r.p.warnings,
                    success |-> parseSuccess(r.p.errors, r.p.warnings)]]

\* parse(source) on the parser instance p
parse(p, source) ==
  LET p0 == parserReset(p)
  IN  With(tokenize(p0.lexer, source), LAMBDA lx :
        parseReturn(parseProgram([p0 EXCEPT !.lexer = lx, !.tokens = lx.tokens])))

\* parseTokens(tokens) on the parser instance p
parseTokens(p, tokens) ==
  parseReturn(parseProgram([parserReset(p) EXCEPT !.tokens = tokens]))

-----------------------------------------------------------------------------
(* EnhancedSemanticAnalyzer: type environment *)

\* a JavaScript Map keyed by name, in insertion order: a sequence of info
\* records, each with a name field
mapHas(m, name) == \E i \in 1..Len(m) : m[i].name = name

mapIndex(m, name) == CHOOSE i \in 1..Len(m) : m[i].name = name

mapGet(m, name) == m[mapIndex(m, name)]

mapSet(m, name, info) ==
  IF mapHas(m, name) THEN [m EXCEPT ![mapIndex(m, name)] = info] ELSE Append(m, info)

createEmptyTypeEnvironment ==
  [functions |-> <<>>, constants |-> <<>>, variables |-> <<>>, maps |-> <<>>,
   traits |-> <<>>]

AnalyzerNew == [errors |-> <<>>, warnings |-> <<>>,
                typeEnvironment |-> createEmptyTypeEnvironment,
                currentFunction |-> Null]

analyzerReset(az) ==
  [az EXCEPT !.errors = <<>>, !.warnings = <<>>,
             !.typeEnvironment = createEmptyTypeEnvironment,
             !.currentFunction = Null]

builtinFunctions ==
  {"+", "-", "*", "/", "mod", "pow", "sqrti",
   "<", "<=", ">", ">=", "is-eq",
   "and", "or", "not",
   "unwrap!", "unwrap-panic", "unwrap-err!", "unwrap-err-panic",
   "is-ok", "is-err", "is-some", "is-none",
   "ok", "err", "some", "none",
   "map-get?", "map-set", "map-insert", "map-delete",
   "var-get", "var-set",
   "list", "append", "concat", "len", "element-at", "index-of",
   "filter", "map", "fold",
   "get", "merge", "tuple",
   "begin", "if", "let", "match", "try",
   "asserts!", "print",
   "contract-call?", "as-contract",
   "tx-sender", "contract-caller", "block-height",
   "stx-get-balance", "stx-transfer?",
   "ft-mint?", "ft-transfer?", "ft-burn?", "ft-get-balance",
   "nft-mint?", "nft-transfer?", "nft-burn?", "nft-get-owner?"}

\* semantic errors and warnings; the location and node fields are source
\* ranges and node references, which are not part of the model
semAddError(az, message) ==
  [az EXCEPT !.errors = Append(@, [message |-> message, code |-> "SEMANTIC_ERROR"])]

semAddWarning(az, message) ==
  [az EXCEPT !.warnings = Append(@, [message |-> message, code |-> "SEMANTIC_WARNING"])]

ClarityType(kind) == [type |-> "clarity-type", kind |-> kind]

\* String.prototype.includes('.')
includesDot(name) == \E i \in 1..Len(name) : SubSeq(name, i, i) = "."

semGetFunctionName(funcExpr) ==
  IF funcExpr.type = "identifier" THEN funcExpr.name ELSE "unknown"

inferExpressionType(expr) ==
  CASE expr.type = "uint-literal" -> ClarityType("uint")
    [] expr.type = "int-literal"  -> ClarityType("int")
    [] expr.type = "bool-literal" -> ClarityType("bool")
    [] OTHER -> ClarityType("uint")

inferReturnType(func) ==
  IF Len(func.body) > 0 THEN inferExpressionType(func.body[Len(func.body)])
  ELSE ClarityType("uint")

containsExternalCalls(expressions) ==
  \E i \in 1..Len(expressions) :
     /\ expressions[i].type = "function-call"
     /\ LET functionName == semGetFunctionName(expressions[i].function)
        IN  functionName = "contract-call?" \/ includesDot(functionName)

containsStateModifications(expressions) ==
  \E i \in 1..Len(expressions) :
     /\ expressions[i].type = "function-call"
     /\ semGetFunctionName(expressions[i].function)
          \in {"map-set", "map-insert", "map-delete", "var-set"}

containsFailableOperations(expressions) ==
  \E i \in 1..Len(expressions) :
     /\ expressions[i].type = "function-call"
     /\ semGetFunctionName(expressions[i].function) \in {"unwrap!", "unwrap-panic", "asserts!"}

functionCallsExternal(func) == containsExternalCalls(func.body)

functionModifiesState(func) == containsStateModifications(func.body)

functionCanFail(func) == containsFailableOperations(func.body)

isPureFunction(func) == ~functionModifiesState(func)

isPayableFunction(func) == func.visibility = "public"

semIsExternalCall(call) ==
  LET functionName == semGetFunctionName(call.function)
  IN  functionName = "contract-call?" \/ includesDot(functionName)

callCanFail(functionName) ==
  functionName \in {"unwrap!", "unwrap-panic", "unwrap-err!", "unwrap-err-panic",
                    "asserts!", "stx-transfer?", "ft-transfer?", "nft-transfer?",
                    "map-insert", "contract-call?"}

expressionCanFail(expr) ==
  IF expr.type = "function-call" THEN callCanFail(semGetFunctionName(expr.function))
  ELSE FALSE

typesCompatible(type1, type2) == type1.kind = type2.kind

\* a variant of the declaration collection that reports a duplicate and
\* installs it all the same
collectDeclarationOverwriting(az, category, message, name, info) ==
  IF mapHas(az.typeEnvironment[category], name)
  THEN [semAddError(az, message \o " '" \o name \o "' is already defined")
          EXCEPT !.typeEnvironment[category] = mapSet(@, name, info)]
  ELSE [az EXCEPT !.typeEnvironment[category] = mapSet(@, name, info)]

\* declaration collection: every collect* function reports a duplicate and
\* returns before installing it
collectDeclaration(az, category, message, name, info) ==
  IF mapHas(az.typeEnvironment[category], name)
  THEN semAddError(az, message \o " '" \o name \o "' is already defined")
  ELSE [az EXCEPT !.typeEnvironment[category] = mapSet(@, name, info)]

collectFunctionDeclaration(az, func) ==
  collectDeclaration(az, "functions", "Function", func.name,
    [name |-> func.name, visibility |-> func.visibility, parameters |-> func.parameters,
     returnType |-> inferReturnType(func), pure |-> isPureFunction(func),
     payable |-> isPayableFunction(func)])

collectConstantDeclaration(az, constant) ==
  collectDeclaration(az, "constants", "Constant", constant.name,
    [name |-> constant.name, type |-> inferExpressionType(constant.value),
     value |-> constant.value, used |-> FALSE])

collectMapDeclaration(az, map) ==
  collectDeclaration(az, "maps", "Map", map.name,
    [name |-> map.name, keyType |-> map.keyType, valueType |-> map.valueType,
     accessed |-> FALSE, modified |-> FALSE])

collectVariableDeclaration(az, variable) ==
  collectDeclaration(az, "variables", "Variable", variable.name,
    [name |-> variable.name, type |-> variable.varType,
     initialValue |-> variable.initialValue, mutable |-> TRUE,
     accessed |-> FALSE, modified |-> FALSE])

collectTraitDeclaration(az, trait) ==
  collectDeclaration(az, "traits", "Trait", trait.name,
    [name |-> trait.name, functions |-> trait.functions])

\* one iteration of the loop of collectDeclarations
collectStatement(az, statement) ==
  CASE statement.type = "function-definition" -> collectFunctionDeclaration(az, statement)
    [] statement.type = "constant-definition" -> collectConstantDeclaration(az, statement)
    [] statement.type = "map-definition"      -> collectMapDeclaration(az, statement)
    [] statement.type = "data-var-definition" -> collectVariableDeclaration(az, statement)
    [] statement.type = "trait-definition"    -> collectTraitDeclaration(az, statement)
    [] OTHER -> az

RECURSIVE collectFrom(_, _, _)
collectFrom(az, body, i) ==
  IF i > Len(body) THEN az ELSE collectFrom(collectStatement(az, body[i]), body, i + 1)

collectDeclarations(az, ast) == collectFrom(az, ast.body, 1)

-----------------------------------------------------------------------------
(* EnhancedSemanticAnalyzer: expression analysis *)

\* outcome of an analyze* function: the analyzer afterwards, the node as
\* annotated in place, the type returned, and st = "ok" or "throw"
SemRet(az, node, ty) == [az |-> az, node |-> node, ty |-> ty, st |-> "ok"]

SemThrow(az, node) == [az |-> az, node |-> node, ty |-> Undefined, st |-> "throw"]

\* a local scope is a Map from names to VariableInfo: a sequence of
\* [name, type] entries (the accessed flag of a local is written, never read)
scopeSet(scope, name, ty) == mapSet(scope, name, [name |-> name, type |-> ty])

firstArgIsIdentifier(call) ==
  Len(call.arguments) > 0 /\ call.arguments[1].type = "identifier"

analyzeSideEffects(call) ==
  LET functionName == semGetFunctionName(call.function)
      target(kind, operation) ==
        IF firstArgIsIdentifier(call)
        THEN <<[type |-> kind, target |-> call.arguments[1].name, operation |-> operation]>>
        ELSE <<>>
  IN  CASE functionName \in {"map-set", "map-insert"} -> target("map-access", "write")
        [] functionName = "map-get?" -> target("map-access", "read")
        [] functionName = "var-set" -> target("state-modification", "write")
        [] functionName = "var-get" -> target("state-modification", "read")
        [] functionName \in {"stx-transfer?", "ft-transfer?", "nft-transfer?"} ->
             <<[type |-> "token-transfer", operation |-> "write"]>>
        [] functionName = "contract-call?" ->
             <<[type |-> "external-call", operation |-> "write"]>>
        [] OTHER -> <<>>

\* mapInfo.accessed = true; if (write operation) mapInfo.modified = true
markMap(info, functionName) ==
  [info EXCEPT !.accessed = TRUE,
               !.modified = IF functionName \in {"map-set", "map-insert", "map-delete"}
                            THEN TRUE ELSE @]

\* a variant of the marking that assigns both flags from the kind of access
markVariableAssigning(info, functionName) ==
  [info EXCEPT !.accessed = (functionName = "var-get"),
               !.modified = (functionName = "var-set")]

\* varInfo.accessed = true; if (var-set) varInfo.modified = true
markVariable(info, functionName) ==
  [info EXCEPT !.accessed = TRUE,
               !.modified = IF functionName = "var-set" THEN TRUE ELSE @]

markResourceAccess(az, call) ==
  LET functionName == semGetFunctionName(call.function)
      env == az.typeEnvironment
  IN  IF ~firstArgIsIdentifier(call) THEN az
      ELSE LET name == call.arguments[1].name
           IN  IF functionName \in {"map-get?", "map-set", "map-insert", "map-delete"}
                  /\ mapHas(env.maps, name)
               THEN [az EXCEPT !.typeEnvironment.maps[mapIndex(env.maps, name)] =
                                  markMap(@, functionName)]
               ELSE IF functionName \in {"var-get", "var-set"} /\ mapHas(env.variables, name)
               THEN [az EXCEPT !.typeEnvironment.variables[mapIndex(env.variables, name)] =
                                  markVariable(@, functionName)]
               ELSE az

inferFunctionCallReturnType(az, call, argTypes) ==
  LET functionName == semGetFunctionName(call.function)
      firstArg == IF Len(argTypes) > 0 THEN argTypes[1] ELSE Undefined
  IN  CASE functionName \in {"+", "-", "*", "/", "mod"} ->
             IF Len(argTypes) > 0 THEN argTypes[1] ELSE ClarityType("uint")
        [] functionName \in {"<", "<=", ">", ">=", "is-eq", "and", "or", "not"} ->
             ClarityType("bool")
        [] functionName = "ok" ->
             [type |-> "clarity-type", kind |-> "response", okType |-> firstArg,
              errType |-> ClarityType("uint")]
        [] functionName = "err" ->
             [type |-> "clarity-type", kind |-> "response", okType |-> ClarityType("uint"),
              errType |-> firstArg]
        [] OTHER ->
             IF mapHas(az.typeEnvironment.functions, functionName)
             THEN mapGet(az.typeEnvironment.functions, functionName).returnType
             ELSE ClarityType("uint")

\* a variant that looks a name up in the variables before the constants
analyzeIdentifierVariablesFirst(az, identifier, localScope) ==
  LET env == az.typeEnvironment
      name == identifier.name
      resolved(kind, ty) ==
        identifier @@ [resolvedBinding |-> [ref |-> kind, name |-> name],
                       resolvedType |-> ty]
  IN  IF mapHas(localScope, name)
      THEN SemRet(az, resolved("local", mapGet(localScope, name).type),
                  mapGet(localScope, name).type)
      ELSE IF mapHas(env.variables, name)
      THEN SemRet([az EXCEPT !.typeEnvironment.variables[mapIndex(env.variables, name)].accessed
                               = TRUE],
                  resolved("variables", mapGet(env.variables, name).type),
                  mapGet(env.variables, name).type)
      ELSE IF mapHas(env.constants, name)
      THEN SemRet([az EXCEPT !.typeEnvironment.constants[mapIndex(env.constants, name)].used
                               = TRUE],
                  resolved("constants", mapGet(env.constants, name).type),
                  mapGet(env.constants, name).type)
      ELSE IF mapHas(env.functions, name)
      THEN SemRet(az, resolved("functions", mapGet(env.functions, name).returnType),
                  mapGet(env.functions, name).returnType)
      ELSE IF includesDot(name)
      THEN SemRet(az, identifier @@ [isContractCall |-> TRUE,
                                     contractPrincipal |->
                                       SubSeq(name, 1, (CHOOSE i \in 1..Len(name) :
                                                          /\ SubSeq(name, i, i) = "."
                                                          /\ \A j \in 1..(i - 1) :
                                                               SubSeq(name, j, j) # ".") - 1)],
                  ClarityType("uint"))
      ELSE SemRet(semAddError(az, "Undefined identifier: " \o name), identifier,
                  ClarityType("uint"))

\* the first match in the order local scope, constants, variables, functions,
\* dotted contract reference; otherwise an error
analyzeIdentifier(az, identifier, localScope) ==
  LET env == az.typeEnvironment
      name == identifier.name
      resolved(kind, ty) ==
        identifier @@ [resolvedBinding |-> [ref |-> kind, name |-> name],
                       resolvedType |-> ty]
  IN  IF mapHas(localScope, name)
      THEN SemRet(az, resolved("local", mapGet(localScope, name).type),
                  mapGet(localScope, name).type)
      ELSE IF mapHas(env.constants, name)
      THEN SemRet([az EXCEPT !.typeEnvironment.constants[mapIndex(env.constants, name)].used
                               = TRUE],
                  resolved("constants", mapGet(env.constants, name).type),
                  mapGet(env.constants, name).type)
      ELSE IF mapHas(env.variables, name)
      THEN SemRet([az EXCEPT !.typeEnvironment.variables[mapIndex(env.variables, name)].accessed
                               = TRUE],
                  resolved("variables", mapGet(env.variables, name).type),
                  mapGet(env.variables, name).type)
      ELSE IF mapHas(env.functions, name)
      THEN SemRet(az, resolved("functions", mapGet(env.functions, name).returnType),
                  mapGet(env.functions, name).returnType)
      ELSE IF includesDot(name)
      THEN SemRet(az, identifier @@ [isContractCall |-> TRUE,
                                     contractPrincipal |->
                                       SubSeq(name, 1, (CHOOSE i \in 1..Len(name) :
                                                          /\ SubSeq(name, i, i) = "."
                                                          /\ \A j \in 1..(i - 1) :
                                                               SubSeq(name, j, j) # ".") - 1)],
                  ClarityType("uint"))
      ELSE SemRet(semAddError(az, "Undefined identifier: " \o name), identifier,
                  ClarityType("uint"))

RECURSIVE analyzeExpression(_, _, _), analyzeExpressionList(_, _, _, _, _),
          analyzeFunctionCall(_, _, _), analyzeLetExpression(_, _, _),
          analyzeBindings(_, _, _, _, _, _), analyzeBeginExpression(_, _, _),
          analyzeIfExpression(_, _, _), analyzeListElements(_, _, _, _, _),
          analyzeListExpression(_, _, _),
          analyzeTupleExpression(_, _, _)

analyzeExpression(az, expr, localScope) ==
  CASE expr.type = "function-call"    -> analyzeFunctionCall(az, expr, localScope)
    [] expr.type = "identifier"       -> analyzeIdentifier(az, expr, localScope)
    [] expr.type = "let-expression"   -> analyzeLetExpression(az, expr, localScope)
    [] expr.type = "begin-expression" -> analyzeBeginExpression(az, expr, localScope)
    [] expr.type = "if-expression"    -> analyzeIfExpression(az, expr, localScope)
    [] expr.type = "list-expression"  -> analyzeListExpression(az, expr, localScope)
    [] expr.type = "tuple-expression" -> analyzeTupleExpression(az, expr, localScope)
    [] expr.type = "uint-literal"     -> SemRet(az, expr, ClarityType("uint"))
    [] expr.type = "int-literal"      -> SemRet(az, expr, ClarityType("int"))
    [] expr.type = "bool-literal"     -> SemRet(az, expr, ClarityType("bool"))
    [] expr.type = "string-literal"   ->
         SemRet(az, expr, ClarityType(IF expr.encoding = "ascii" THEN "string-ascii"
                                      ELSE "string-utf8"))
    [] expr.type = "buff-literal"     ->
         SemRet(az, expr, [type |-> "clarity-type", kind |-> "buff", size |-> Len(expr.value)])
    [] expr.type = "principal-literal" -> SemRet(az, expr, ClarityType("principal"))
    [] OTHER -> SemRet(semAddWarning(az, "Unknown expression type: " \o expr.type), expr,
                       ClarityType("uint"))

\* for (const e of exprs) analyzeExpression(e, scope): node is the sequence of
\* annotated expressions, ty the sequence of their types
analyzeExpressionList(az, exprs, localScope, nodes, types) ==
  IF Len(nodes) = Len(exprs) THEN SemRet(az, nodes, types)
  ELSE With(analyzeExpression(az, exprs[Len(nodes) + 1], localScope), LAMBDA r :
         IF r.st # "ok"
         THEN SemThrow(r.az, nodes \o <<r.node>>
                             \o SubSeq(exprs, Len(nodes) + 2, Len(exprs)))
         ELSE analyzeExpressionList(r.az, exprs, localScope, Append(nodes, r.node),
                                    Append(types, r.ty)))

analyzeFunctionCall(az, call, localScope) ==
  LET functionName == semGetFunctionName(call.function)
      c1 == [isBuiltin |-> functionName \in builtinFunctions] @@ call
      analyzed(args, c3) ==
        SemRet(markResourceAccess(args.az, c3), c3,
               inferFunctionCallReturnType(args.az, c3, args.ty))
      annotated(c2) ==
        [c2 EXCEPT !.isExternal = semIsExternalCall(c2),
                   !.canFail = callCanFail(functionName),
                   !.sideEffects = analyzeSideEffects(c2)]
  IN  IF "arguments" \notin DOMAIN call
      THEN \* for (const arg of undefined): TypeError
           SemThrow(az, c1)
      ELSE With(analyzeExpressionList(az, call.arguments, localScope, <<>>, <<>>),
                LAMBDA args :
                  IF args.st # "ok"
                  THEN SemThrow(args.az, [c1 EXCEPT !.arguments = args.node])
                  ELSE analyzed(args, annotated([c1 EXCEPT !.arguments = args.node])))

\* the bindings loop: values are analyzed in the enclosing scope, the names
\* are added to the copy
analyzeBindings(az, bindings, localScope, newScope, i, done) ==
  IF i > Len(bindings) THEN [az |-> az, node |-> done, scope |-> newScope, st |-> "ok"]
  ELSE With(analyzeExpression(az, bindings[i].value, localScope), LAMBDA r :
         LET b == [bindings[i] EXCEPT !.value = r.node]
         IN  IF r.st # "ok"
             THEN [az |-> r.az,
                   node |-> done \o <<b>> \o SubSeq(bindings, i + 1, Len(bindings)),
                   scope |-> newScope, st |-> "throw"]
             ELSE analyzeBindings(r.az, bindings, localScope,
                                  scopeSet(newScope, bindings[i].name, r.ty), i + 1,
                                  Append(done, b @@ [bindingType |-> r.ty])))

\* a variant that analyzes the body in the enclosing scope
analyzeLetExpressionInEnclosingScope(az, letExpr, localScope) ==
  With(analyzeBindings(az, letExpr.bindings, localScope, localScope, 1, <<>>), LAMBDA b :
    LET l1 == [letExpr EXCEPT !.bindings = b.node]
    IN  IF b.st # "ok" THEN SemThrow(b.az, l1)
        ELSE With(analyzeExpressionList(b.az, letExpr.body, localScope, <<>>, <<>>),
                  LAMBDA body :
                    LET l2 == [l1 EXCEPT !.body = body.node] @@ [localScope |-> b.scope]
                    IN  IF body.st # "ok" THEN SemThrow(body.az, l2)
                        ELSE SemRet(body.az, l2,
                                    IF Len(body.ty) > 0 THEN body.ty[Len(body.ty)]
                                    ELSE ClarityType("uint"))))

\* the bindings are added to a copy of the enclosing scope, in which the body
\* is analyzed
analyzeLetExpression(az, letExpr, localScope) ==
  With(analyzeBindings(az, letExpr.bindings, localScope, localScope, 1, <<>>), LAMBDA b :
    LET l1 == [letExpr EXCEPT !.bindings = b.node]
    IN  IF b.st # "ok" THEN SemThrow(b.az, l1)
        ELSE With(analyzeExpressionList(b.az, letExpr.body, b.scope, <<>>, <<>>),
                  LAMBDA body :
                    LET l2 == [l1 EXCEPT !.body = body.node] @@ [localScope |-> b.scope]
                    IN  IF body.st # "ok" THEN SemThrow(body.az, l2)
                        ELSE SemRet(body.az, l2,
                                    IF Len(body.ty) > 0 THEN body.ty[Len(body.ty)]
                                    ELSE ClarityType("uint"))))

analyzeBeginExpression(az, beginExpr, localScope) ==
  With(analyzeExpressionList(az, beginExpr.body, localScope, <<>>, <<>>), LAMBDA body :
    LET b1 == [beginExpr EXCEPT !.body = body.node]
    IN  IF body.st # "ok" THEN SemThrow(body.az, b1)
        ELSE SemRet(body.az,
                    [b1 EXCEPT !.canFail = \E i \in 1..Len(body.node) :
                                              expressionCanFail(body.node[i])],
                    IF Len(body.ty) > 0 THEN body.ty[Len(body.ty)] ELSE ClarityType("uint")))

analyzeIfExpression(az, ifExpr, localScope) ==
  With(analyzeExpression(az, ifExpr.condition, localScope), LAMBDA c :
    LET i1 == [ifExpr EXCEPT !.condition = c.node]
        az1 == IF c.ty.kind # "bool"
               THEN semAddWarning(c.az, "If condition should be boolean") ELSE c.az
    IN  IF c.st # "ok" THEN SemThrow(c.az, i1)
        ELSE With(analyzeExpression(az1, ifExpr.then, localScope), LAMBDA t :
               LET i2 == [i1 EXCEPT !.then = t.node]
               IN  IF t.st # "ok" THEN SemThrow(t.az, i2)
                   ELSE IF ifExpr.else = Undefined THEN SemRet(t.az, i2, t.ty)
                   ELSE With(analyzeExpression(t.az, ifExpr.else, localScope), LAMBDA e :
                          LET i3 == [i2 EXCEPT !.else = e.node]
                          IN  IF e.st # "ok" THEN SemThrow(e.az, i3)
                              ELSE SemRet(IF ~typesCompatible(t.ty, e.ty)
                                          THEN semAddWarning(e.az,
                                                 "If branches have incompatible types")
                                          ELSE e.az,
                                          i3, t.ty))))

\* the element loop of analyzeListExpression: an element whose kind differs
\* from the kind of the first element is warned about right after its analysis
analyzeListElements(az, elements, localScope, nodes, types) ==
  IF Len(nodes) = Len(elements) THEN SemRet(az, nodes, types)
  ELSE With(analyzeExpression(az, elements[Len(nodes) + 1], localScope), LAMBDA r :
         IF r.st # "ok"
         THEN SemThrow(r.az, nodes \o <<r.node>>
                             \o SubSeq(elements, Len(nodes) + 2, Len(elements)))
         ELSE analyzeListElements(
                IF Len(types) > 0 /\ ~typesCompatible(types[1], r.ty)
                THEN semAddWarning(r.az, "List elements have incompatible types")
                ELSE r.az,
                elements, localScope, Append(nodes, r.node), Append(types, r.ty)))

analyzeListExpression(az, listExpr, localScope) ==
  With(analyzeListElements(az, listExpr.elements, localScope, <<>>, <<>>),
       LAMBDA elements :
         LET l1 == [listExpr EXCEPT !.elements = elements.node]
             elementType == IF Len(elements.ty) > 0 THEN elements.ty[1]
                            ELSE ClarityType("uint")
         IN  IF elements.st # "ok" THEN SemThrow(elements.az, l1)
             ELSE SemRet(elements.az, l1 @@ [elementType |-> elementType],
                         [type |-> "clarity-type", kind |-> "list",
                          elementType |-> elementType]))

analyzeTupleExpression(az, tupleExpr, localScope) ==
  With(analyzeExpressionList(az, [i \in 1..Len(tupleExpr.fields) |->
                                    tupleExpr.fields[i].value],
                             localScope, <<>>, <<>>),
       LAMBDA values :
         LET t1 == [tupleExpr EXCEPT
                      !.fields = [i \in 1..Len(tupleExpr.fields) |->
                                    [tupleExpr.fields[i] EXCEPT !.value = values.node[i]]]]
         IN  IF values.st # "ok" THEN SemThrow(values.az, t1)
             ELSE SemRet(values.az, t1,
                    [type |-> "clarity-type", kind |-> "tuple",
                     fields |-> [n \in {tupleExpr.fields[i].name :
                                          i \in 1..Len(tupleExpr.fields)} |->
                                   values.ty[CHOOSE i \in 1..Len(tupleExpr.fields) :
                                               /\ tupleExpr.fields[i].name = n
                                               /\ \A j \in (i + 1)..Len(tupleExpr.fields) :
                                                    tupleExpr.fields[j].name # n]]]))

-----------------------------------------------------------------------------
(* EnhancedSemanticAnalyzer: passes *)

\* the local scope built from the parameters
RECURSIVE parameterScope(_, _, _)
parameterScope(parameters, i, scope) ==
  IF i > Len(parameters) THEN scope
  ELSE parameterScope(parameters, i + 1,
                      scopeSet(scope, parameters[i].name, parameters[i].paramType))

\* after the body walk: the three summary flags
updateFunctionProperties(func) ==
  [func EXCEPT !.callsExternal = functionCallsExternal(func),
               !.modifiesState = functionModifiesState(func),
               !.canFail = functionCanFail(func)]

analyzeFunctionDefinition(az, func) ==
  With(analyzeExpressionList([az EXCEPT !.currentFunction = func.name], func.body,
                             parameterScope(func.parameters, 1, <<>>), <<>>, <<>>),
       LAMBDA body :
         LET f1 == [func EXCEPT !.body = body.node]
         IN  IF body.st # "ok" THEN SemThrow(body.az, f1)
             ELSE SemRet([body.az EXCEPT !.currentFunction = Null],
                         updateFunctionProperties(f1), Undefined))

\* 'value' in statement && statement.value, then the same for initialValue
analyzeTopLevelExpression(az, statement) ==
  IF "value" \in DOMAIN statement
  THEN With(analyzeExpression(az, statement.value, <<>>), LAMBDA r :
         [r EXCEPT !.node = [statement EXCEPT !.value = r.node]])
  ELSE IF "initialValue" \in DOMAIN statement
  THEN With(analyzeExpression(az, statement.initialValue, <<>>), LAMBDA r :
         [r EXCEPT !.node = [statement EXCEPT !.initialValue = r.node]])
  ELSE SemRet(az, statement, Undefined)

\* one iteration of the loop of analyzeExpressions
analyzeStatement(az, statement) ==
  IF statement.type = "function-definition"
  THEN analyzeFunctionDefinition(az, statement)
  ELSE analyzeTopLevelExpression(az, statement)

RECURSIVE analyzeFrom(_, _, _)
analyzeFrom(az, body, i) ==
  IF i > Len(body) THEN SemRet(az, body, Undefined)
  ELSE With(analyzeStatement(az, body[i]), LAMBDA r :
         LET b1 == [body EXCEPT ![i] = r.node]
         IN  IF r.st # "ok" THEN SemThrow(r.az, b1)
             ELSE analyzeFrom(r.az, b1, i + 1))

analyzeExpressions(az, ast) ==
  With(analyzeFrom(az, ast.body, 1), LAMBDA r :
    [r EXCEPT !.node = [ast EXCEPT !.body = r.node]])

RECURSIVE expressionCallsFunction(_, _)
expressionCallsFunction(expr, functionName) ==
  IF expr.type = "function-call"
  THEN \/ semGetFunctionName(expr.function) = functionName
       \/ \E i \in 1..Len(expr.arguments) :
            expressionCallsFunction(expr.arguments[i], functionName)
  ELSE FALSE

expressionsCallFunction(expressions, functionName) ==
  \E i \in 1..Len(expressions) : expressionCallsFunction(expressions[i], functionName)

statementCallsFunction(statement, functionName) ==
  IF statement.type = "function-definition"
  THEN expressionsCallFunction(statement.body, functionName)
  ELSE FALSE

isFunctionCalled(functionName, ast) ==
  \E i \in 1..Len(ast.body) : statementCallsFunction(ast.body[i], functionName)

performUsageAnalysis(az, ast) ==
  LET env == az.typeEnvironment
      \* for (const [name, info] of map) if (flagged(info)) addWarning(...)
      usageWarnings(az0, infos, Flagged(_), Message(_)) ==
        LET flagged == SelectSeq(infos, Flagged)
        IN  [az0 EXCEPT !.warnings = @ \o [i \in 1..Len(flagged) |->
                                             [message |-> Message(flagged[i].name),
                                              code |-> "SEMANTIC_WARNING"]]]
      unusedFunction(f) == f.visibility = "private" /\ ~isFunctionCalled(f.name, ast)
      unusedConstant(c) == ~c.used
      notAccessed(v) == ~v.accessed
      functionMessage(n) == "Private function '" \o n \o "' is never called"
      constantMessage(n) == "Constant '" \o n \o "' is never used"
      variableMessage(n) == "Variable '" \o n \o "' is never accessed"
      mapMessage(n) == "Map '" \o n \o "' is never accessed"
      az1 == usageWarnings(az, env.functions, unusedFunction, functionMessage)
      az2 == usageWarnings(az1, env.constants, unusedConstant, constantMessage)
      az3 == usageWarnings(az2, env.variables, notAccessed, variableMessage)
  IN  usageWarnings(az3, env.maps, notAccessed, mapMessage)

\* ast.typeEnvironment = this.typeEnvironment; func.returnType = signature.returnType
updateAstWithSemanticInfo(az, ast) ==
  [type |-> "program",
   body |-> [i \in 1..Len(ast.body) |->
               IF ast.body[i].type = "function-definition"
                  /\ mapHas(az.typeEnvironment.functions, ast.body[i].name)
               THEN ast.body[i] @@
                    [returnType |-> mapGet(az.typeEnvironment.functions,
                                           ast.body[i].name).returnType]
               ELSE ast.body[i]],
   typeEnvironment |-> az.typeEnvironment]

\* a variant of the success flag that also wants the warning list empty
semSuccessWithoutWarnings(errors, warnings) == Len(errors) = 0 /\ Len(warnings) = 0

\* success: this.errors.length === 0
semSuccess(errors, warnings) == Len(errors) = 0

\* the record returned by analyze, and the AST as the call leaves it
analyzeReturn(az, ast, st) ==
  IF st = "throw"
  THEN LET az1 == semAddError(az, "Semantic analysis error")
       IN  [az |-> az1, ast |-> ast,
            result |-> [typeEnvironment |-> az1.typeEnvironment, errors |-> az1.errors,
                        warnings |-> az1.warnings, success |-> FALSE]]
  ELSE [az |-> az, ast |-> ast,
        result |-> [typeEnvironment |-> az.typeEnvironment, errors |-> az.errors,
                    warnings |-> az.warnings,
                    success |-> semSuccess(az.errors, az.warnings)]]

\* analyze(ast) on the analyzer instance az
analyze(az, ast) ==
  With(analyzeExpressions(collectDeclarations(analyzerReset(az), ast), ast), LAMBDA r :
    IF r.st # "ok" THEN analyzeReturn(r.az, r.node, "throw")
    ELSE With(performUsageAnalysis(r.az, r.node), LAMBDA az3 :
           analyzeReturn(az3, updateAstWithSemanticInfo(az3, r.node), "ok")))

-----------------------------------------------------------------------------
(* EnhancedStaticAnalyzer: reentrancy detection *)

getFunctionName(expr) == IF expr.type = "identifier" THEN expr.name ELSE ""

isExternalCall(expr) ==
  IF expr.type = "function-call"
  THEN expr.isExternal \/ getFunctionName(expr.function) = "contract-call?"
  ELSE FALSE

isStateModification(expr) ==
  IF expr.type = "function-call"
  THEN getFunctionName(expr.function) \in {"var-set", "map-set", "map-insert", "map-delete"}
  ELSE FALSE

\* the for loop of hasReentrancyPattern from index i on; the value is
\* hasExternalCall && hasStateModAfterCall
RECURSIVE reentrancyScan(_, _, _)
reentrancyScan(expressions, i, hasExternalCall) ==
  IF i > Len(expressions) THEN FALSE
  ELSE IF isExternalCall(expressions[i]) THEN reentrancyScan(expressions, i + 1, TRUE)
  ELSE IF hasExternalCall /\ isStateModification(expressions[i]) THEN TRUE
  ELSE reentrancyScan(expressions, i + 1, hasExternalCall)

\* a variant that takes no account of the order of the calls
hasExternalCallAndStateModification(expressions) ==
  /\ \E i \in 1..Len(expressions) : isExternalCall(expressions[i])
  /\ \E i \in 1..Len(expressions) : isStateModification(expressions[i])

hasReentrancyPattern(expressions) == reentrancyScan(expressions, 1, FALSE)

reentrancyIssue(func) ==
  [type |-> "reentrancy-vulnerability", category |-> "reentrancy",
   severity |-> "error", riskLevel |-> "high", cwe |-> "CWE-841",
   message |-> "Function '" \o func.name \o "' may be vulnerable to reentrancy attacks"]

detectReentrancyVulnerabilities(ast) ==
  LET vulnerable(statement) ==
        IF statement.type = "function-definition"
        THEN hasReentrancyPattern(statement.body) ELSE FALSE
      hits == SelectSeq(ast.body, vulnerable)
  IN  [i \in 1..Len(hits) |-> reentrancyIssue(hits[i])]

(* EnhancedStaticAnalyzer: authorization *)

involvesAuthIdentifiers(args) ==
  \E i \in 1..Len(args) :
    IF args[i].type = "identifier"
    THEN args[i].name \in {"tx-sender", "contract-caller", "contract-owner"}
    ELSE FALSE

isAuthorizationCheck(expr) ==
  IF expr.type = "function-call"
  THEN IF getFunctionName(expr.function) \in {"asserts!", "is-eq"}
       THEN involvesAuthIdentifiers(expr.arguments)
       ELSE FALSE
  ELSE FALSE

hasAuthorizationCheck(expressions) ==
  \E i \in 1..Len(expressions) : isAuthorizationCheck(expressions[i])

authorizationIssue(func) ==
  [type |-> "missing-authorization", category |-> "authorization",
   severity |-> "error", riskLevel |-> "high", cwe |-> "CWE-862",
   message |-> "Public function '" \o func.name
               \o "' modifies state without authorization checks"]

detectAuthorizationIssues(ast) ==
  LET unauthorized(statement) ==
        IF statement.type = "function-definition"
        THEN /\ statement.visibility = "public"
             /\ statement.modifiesState
             /\ ~hasAuthorizationCheck(statement.body)
        ELSE FALSE
      hits == SelectSeq(ast.body, unauthorized)
  IN  [i \in 1..Len(hits) |-> authorizationIssue(hits[i])]

(* EnhancedStaticAnalyzer: issues from the type environment *)

\* ast.typeEnvironment: the parser's program node carries an empty type
\* environment (left out of the model's program nodes) until
\* updateAstWithSemanticInfo stores the analyzer's
typeEnvironmentOf(ast) ==
  IF "typeEnvironment" \in DOMAIN ast THEN ast.typeEnvironment
  ELSE createEmptyTypeEnvironment

\* for (const [name, info] of infos) if (flagged) issues.push({type, message})
issuesFor(infos, flagged(_), kind, label, what) ==
  LET hits == SelectSeq(infos, flagged)
  IN  [i \in 1..Len(hits) |->
         [type |-> kind, severity |-> "warning",
          message |-> label \o " '" \o hits[i].name \o "' is " \o what]]

analyzeUnusedCode(ast) ==
  LET typeEnv == typeEnvironmentOf(ast)
  IN  issuesFor(typeEnv.constants, LAMBDA c : ~c.used,
                "unused-constant", "Constant", "defined but never used")
      \o issuesFor(typeEnv.variables, LAMBDA v : ~v.accessed,
                   "unused-variable", "Variable", "defined but never accessed")
      \o issuesFor(typeEnv.maps, LAMBDA m : ~m.accessed,
                   "unused-map", "Map", "defined but never accessed")

analyzeStateManagement(ast) ==
  LET typeEnv == typeEnvironmentOf(ast)
  IN  issuesFor(typeEnv.variables, LAMBDA v : v.modified /\ ~v.accessed,
                "write-only-variable", "Variable", "modified but never read")
      \o issuesFor(typeEnv.maps, LAMBDA m : m.modified /\ ~m.accessed,
                   "write-only-map", "Map", "modified but never read")

(* StaticAnalyzer (the base class): unused functions *)

\* the old format of a statement: new objects for functions and constants
\* that share body and value with the statement, the statement itself otherwise
convertStatement(stmt) ==
  CASE stmt.type = "function-definition" ->
         [type |-> "function-definition", name |-> stmt.name,
          visibility |-> stmt.visibility,
          params |-> [i \in 1..Len(stmt.parameters) |->
                        [name |-> stmt.parameters[i].name,
                         type |-> stmt.parameters[i].paramType.kind]],
          body |-> stmt.body]
    [] stmt.type = "constant-definition" ->
         [type |-> "constant-definition", name |-> stmt.name, value |-> stmt.value]
    [] OTHER -> stmt

convertToOldAst(enhancedAst) ==
  [type |-> "program",
   body |-> [i \in 1..Len(enhancedAst.body) |-> convertStatement(enhancedAst.body[i])]]

\* the values searchNode of AstUtils.findNodesByType recurses into: the
\* properties of node that are objects with a type property, and the items of
\* its array properties that are
childNodes(node) ==
  LET opt(field) == IF field \in DOMAIN node THEN <<node[field]>> ELSE <<>>
      arr(field) == IF field \in DOMAIN node THEN node[field] ELSE <<>>
  IN  CASE node.type = "function-definition" -> arr("body")
        [] node.type = "constant-definition" -> opt("value")
        [] node.type = "data-var-definition" -> opt("initialValue")
        [] node.type = "function-call" ->
             opt("function") \o arr("arguments") \o arr("sideEffects")
        [] node.type = "begin-expression" -> arr("body")
        [] node.type = "let-expression" -> arr("bindings") \o arr("body")
        [] node.type = "binding" -> opt("value")
        [] node.type = "if-expression" -> opt("condition") \o opt("then") \o opt("else")
        [] node.type = "list-expression" -> arr("elements")
        [] node.type = "tuple-expression" -> arr("fields")
        [] node.type = "tuple-field" -> opt("value")
        [] OTHER -> <<>>

\* identifier.resolvedBinding is the ConstantInfo / VariableInfo object
\* itself (it has a type property, so searchNode recurses into it), and the
\* value / initialValue property of that object is the value node of the
\* statement that installed it, the first of that name: the nodes searchNode
\* reaches through the resolvedBinding of node.  A FunctionSignature has no
\* type property; the initialValue of a parameter or of a let binding is a
\* dummy identifier or a node of the enclosing let
referencedNodes(ast, node) ==
  IF node.type = "identifier" /\ "resolvedBinding" \in DOMAIN node
  THEN LET binding == node.resolvedBinding
           installs(s) ==
             /\ "name" \in DOMAIN s /\ s.name = binding.name
             /\ \/ binding.ref = "constants" /\ s.type = "constant-definition"
                \/ binding.ref = "variables" /\ s.type = "data-var-definition"
           defs == SelectSeq(ast.body, installs)
           field == IF binding.ref = "constants" THEN "value" ELSE "initialValue"
       IN  IF defs # <<>> /\ field \in DOMAIN defs[1] THEN <<defs[1][field]>> ELSE <<>>
  ELSE <<>>

\* searchNode never returns: some identifier is reached again below the info
\* object it is bound to.  path holds the infos whose properties are being
\* searched
RECURSIVE searchNodeRecursesForever(_, _, _)
searchNodeRecursesForever(ast, node, path) ==
  \/ \E i \in 1..Len(childNodes(node)) :
       searchNodeRecursesForever(ast, childNodes(node)[i], path)
  \/ /\ referencedNodes(ast, node) # <<>>
     /\ \/ node.resolvedBinding \in path
        \/ searchNodeRecursesForever(ast, referencedNodes(ast, node)[1],
                                     path \cup {node.resolvedBinding})

\* the recursion of findNodesByType exceeds the call stack
stackOverflows(ast) ==
  \E i \in 1..Len(ast.body) : searchNodeRecursesForever(ast, ast.body[i], {})

RECURSIVE searchNode(_, _, _)
searchNode(ast, node, nodeType) ==
  LET RECURSIVE searchAll(_, _)
      searchAll(nodes, i) ==
        IF i > Len(nodes) THEN <<>>
        ELSE searchNode(ast, nodes[i], nodeType) \o searchAll(nodes, i + 1)
  IN  (IF node.type = nodeType THEN <<node>> ELSE <<>>)
      \o searchAll(childNodes(node) \o referencedNodes(ast, node), 1)

\* the nodes found when the search returns (it does unless stackOverflows)
findNodesByType(ast, nodeType) ==
  LET RECURSIVE searchBody(_)
      searchBody(i) ==
        IF i > Len(ast.body) THEN <<>>
        ELSE searchNode(ast, ast.body[i], nodeType) \o searchBody(i + 1)
  IN  searchBody(1)

\* calledFunctionNames.has(name), the set being made of call.name for every
\* function-call node
calledFunctionNamesHas(functionCalls, name) ==
  \E i \in 1..Len(functionCalls) :
    IF "name" \in DOMAIN functionCalls[i] THEN functionCalls[i].name = name ELSE FALSE

checkUnusedFunctions(ast) ==
  LET functionCalls == findNodesByType(ast, "function-call")
      unused(func) == /\ func.visibility = "private"
                      /\ ~calledFunctionNamesHas(functionCalls, func.name)
      hits == SelectSeq(findNodesByType(ast, "function-definition"), unused)
  IN  [i \in 1..Len(hits) |->
         [type |-> "unused-function", severity |-> "warning",
          message |-> "Private function '" \o hits[i].name
                      \o "' is defined but never called"]]

(* EnhancedStaticAnalyzer: call graph *)

findFunctionDefinition(ast, name) ==
  LET found == SelectSeq(ast.body, LAMBDA stmt :
                 IF stmt.type = "function-definition" THEN stmt.name = name ELSE FALSE)
  IN  IF Len(found) = 0 THEN Undefined ELSE found[1]

\* const calls = []; return calls
findFunctionCalls(expressions) == <<>>

\* the second pass of buildCallGraph: the names pushed to the calledBy of the
\* node of functionName, in the order of the nodes and of their calls
calledByOf(nodes, functionName) ==
  LET RECURSIVE pushed(_)
      pushed(i) ==
        IF i > Len(nodes) THEN <<>>
        ELSE SelectSeq([j \in 1..Len(nodes[i].calls) |->
                          IF nodes[i].calls[j] = functionName
                          THEN nodes[i].functionName ELSE ""],
                       LAMBDA caller : caller # "")
             \o pushed(i + 1)
  IN  pushed(1)

buildCallGraph(ast) ==
  LET signatures == typeEnvironmentOf(ast).functions
      defined == SelectSeq(signatures, LAMBDA sig :
                   findFunctionDefinition(ast, sig.name) # Undefined)
      node(sig) ==
        LET funcDef == findFunctionDefinition(ast, sig.name)
        IN  [functionName |-> sig.name, calls |-> findFunctionCalls(funcDef.body),
             calledBy |-> <<>>, isExternal |-> funcDef.callsExternal,
             modifiesState |-> funcDef.modifiesState]
      firstPass == [i \in 1..Len(defined) |-> node(defined[i])]
  IN  [i \in 1..Len(firstPass) |->
         [firstPass[i] EXCEPT !.calledBy = calledByOf(firstPass, firstPass[i].functionName)]]

(* EnhancedStaticAnalyzer: overflow and unsafe operations *)

\* flatMap over the elements of a sequence
RECURSIVE concatAll(_)
concatAll(seqs) ==
  IF Len(seqs) = 0 THEN <<>> ELSE Head(seqs) \o concatAll(Tail(seqs))

\* Simplified implementation: return false
hasArithmeticBoundsCheck(call) == FALSE

findUnsafeArithmetic(expressions) ==
  LET unsafe(expr) ==
        IF expr.type = "function-call"
        THEN /\ getFunctionName(expr.function) \in {"+", "-", "*"}
             /\ ~hasArithmeticBoundsCheck(expr)
        ELSE FALSE
      hits == SelectSeq(expressions, unsafe)
  IN  [i \in 1..Len(hits) |-> [operation |-> getFunctionName(hits[i].function)]]

\* the bodies of the function definitions of the program, in order
functionBodies(ast) ==
  LET functions == SelectSeq(ast.body, LAMBDA stmt : stmt.type = "function-definition")
  IN  [i \in 1..Len(functions) |-> functions[i].body]

detectOverflowVulnerabilities(ast) ==
  LET bodies == functionBodies(ast)
      found(body) ==
        LET unsafeArithmetic == findUnsafeArithmetic(body)
        IN  [i \in 1..Len(unsafeArithmetic) |->
               [type |-> "integer-overflow", category |-> "overflow",
                severity |-> "warning", riskLevel |-> "medium", cwe |-> "CWE-190",
                message |-> "Potential integer overflow in "
                            \o unsafeArithmetic[i].operation \o " operation"]]
  IN  concatAll([i \in 1..Len(bodies) |-> found(bodies[i])])

findUnsafeOperations(expressions) ==
  LET operations(expr) ==
        IF expr.type # "function-call" THEN <<>>
        ELSE (IF getFunctionName(expr.function) \in {"unwrap!", "unwrap-panic"}
              THEN <<[operation |-> getFunctionName(expr.function)]>> ELSE <<>>)
             \o (IF getFunctionName(expr.function) = "/"
                 THEN <<[operation |-> "division"]>> ELSE <<>>)
  IN  concatAll([i \in 1..Len(expressions) |-> operations(expressions[i])])

detectUnsafeOperations(ast) ==
  LET bodies == functionBodies(ast)
      found(body) ==
        LET unsafeOps == findUnsafeOperations(body)
        IN  [i \in 1..Len(unsafeOps) |->
               [type |-> "unsafe-operation", category |-> "unsafe-operation",
                severity |-> "warning", riskLevel |-> "medium",
                message |-> "Unsafe operation: " \o unsafeOps[i].operation]]
  IN  concatAll([i \in 1..Len(bodies) |-> found(bodies[i])])

(* EnhancedStaticAnalyzer: data flow *)

\* findVariableReaders, findMapReaders, findConstantReaders: return []
findReaders(ast, name) == <<>>

\* findVariableWriters, findMapWriters: return []
findWriters(ast, name) == <<>>

\* findVariableDependencies, findMapDependencies, findConstantDependencies:
\* return []
findDependencies(ast, name) == <<>>

buildDataFlowGraph(ast) ==
  LET typeEnv == typeEnvironmentOf(ast)
      nodes(infos, kind) ==
        [i \in 1..Len(infos) |->
           [name |-> infos[i].name, type |-> kind,
            readers |-> findReaders(ast, infos[i].name),
            writers |-> IF kind = "constant" THEN <<>>
                        ELSE findWriters(ast, infos[i].name),
            dependencies |-> findDependencies(ast, infos[i].name)]]
  IN  nodes(typeEnv.variables, "variable") \o nodes(typeEnv.maps, "map")
      \o nodes(typeEnv.constants, "constant")

\* names.join(', ')
RECURSIVE join(_)
join(names) ==
  IF Len(names) = 0 THEN ""
  ELSE IF Len(names) = 1 THEN names[1]
  ELSE names[1] \o ", " \o join(Tail(names))

detectStateInconsistencies(ast) ==
  LET contended == SelectSeq(buildDataFlowGraph(ast), LAMBDA node :
                     node.type = "variable" /\ Len(node.writers) > 1)
  IN  [i \in 1..Len(contended) |->
         [type |-> "state-inconsistency", category |-> "state-inconsistency",
          severity |-> "info", riskLevel |-> "low",
          message |-> "Variable '" \o contended[i].name
                      \o "' is modified by multiple functions: "
                      \o join(contended[i].writers)]]

\* analyzeEnhanced(ast): the call graph and the data-flow graph; the issues of
\* the base class about unused functions and the semantic issues about unused
\* and write-only declarations; the vulnerabilities; and the AST as the call
\* leaves it, which is the AST it was given: no statement of analyzeEnhanced
\* or of what it calls assigns to a node or to the type environment
\* the exception of a call that does not return
RangeError == "RangeError: Maximum call stack size exceeded"

\* a variant that hands back the AST it converted for the base analysis
analyzeEnhancedConverting(ast) ==
  IF stackOverflows(convertToOldAst(ast)) THEN [thrown |-> RangeError, ast |-> ast]
  ELSE
  [ast |-> convertToOldAst(ast),
   callGraph |-> buildCallGraph(ast),
   dataFlowGraph |-> buildDataFlowGraph(ast),
   issues |-> checkUnusedFunctions(convertToOldAst(ast)) \o analyzeUnusedCode(ast)
              \o analyzeStateManagement(ast),
   vulnerabilities |-> detectReentrancyVulnerabilities(ast)
                       \o detectOverflowVulnerabilities(ast)
                       \o detectAuthorizationIssues(ast)
                       \o detectUnsafeOperations(ast)
                       \o detectStateInconsistencies(ast)]

\* the base analysis comes first and searches the AST with findNodesByType
analyzeEnhanced(ast) ==
  IF stackOverflows(convertToOldAst(ast)) THEN [thrown |-> RangeError, ast |-> ast]
  ELSE
  [ast |-> ast,
   callGraph |-> buildCallGraph(ast),
   dataFlowGraph |-> buildDataFlowGraph(ast),
   issues |-> checkUnusedFunctions(convertToOldAst(ast)) \o analyzeUnusedCode(ast)
              \o analyzeStateManagement(ast),
   vulnerabilities |-> detectReentrancyVulnerabilities(ast)
                       \o detectOverflowVulnerabilities(ast)
                       \o detectAuthorizationIssues(ast)
                       \o detectUnsafeOperations(ast)
                       \o detectStateInconsistencies(ast)]

-----------------------------------------------------------------------------
(* EnhancedClarityParserService *)

ServiceNew == [lexer |-> LexerNew, parser |-> ParserNew, semanticAnalyzer |-> AnalyzerNew]

\* result.errors.push({type, message, location, code}) for each entry
tagged(kind, entries) ==
  [i \in 1..Len(entries) |-> [type |-> kind] @@ entries[i]]

\* parseText(sourceCode) on the service instance svc.  parser.parse and
\* semanticAnalyzer.analyze catch what they throw, so the catch block of
\* parseText has nothing to catch; a parse that never returns leaves no result.
parseText(svc, sourceCode) ==
  With(parse(svc.parser, sourceCode), LAMBDA pr :
    LET s1 == [svc EXCEPT !.parser = pr.p]
    IN  IF pr.st = "hang" THEN [svc |-> s1, st |-> "hang", result |-> Null]
        ELSE IF ~pr.result.success \/ pr.result.ast = Null
        THEN [svc |-> s1, st |-> "ok",
              result |-> [ast |-> Null, parseResult |-> pr.result,
                          semanticResult |-> Null, success |-> FALSE,
                          errors |-> tagged("parse", pr.result.errors),
                          warnings |-> tagged("parse", pr.result.warnings)]]
        ELSE With(analyze(svc.semanticAnalyzer, pr.result.ast), LAMBDA sr :
               [svc |-> [s1 EXCEPT !.semanticAnalyzer = sr.az], st |-> "ok",
                result |-> [ast |-> sr.ast,
                            parseResult |-> [pr.result EXCEPT !.ast = sr.ast],
                            semanticResult |-> sr.result,
                            success |-> pr.result.success /\ sr.result.success,
                            errors |-> tagged("parse", pr.result.errors)
                                       \o tagged("semantic", sr.result.errors),
                            warnings |-> tagged("parse", pr.result.warnings)
                                         \o tagged("semantic", sr.result.warnings)]]))

\* validateSyntax(sourceCode): the service's own lexer, then parser.parseTokens
validateSyntax(svc, sourceCode) ==
  With(tokenize(svc.lexer, sourceCode), LAMBDA lx :
    With(parseTokens(svc.parser, lx.tokens), LAMBDA pr :
      LET s1 == [svc EXCEPT !.lexer = lx, !.parser = pr.p]
      IN  IF pr.st = "hang" THEN [svc |-> s1, st |-> "hang", result |-> Null]
          ELSE [svc |-> s1, st |-> "ok",
                result |-> [valid |-> pr.result.success,
                            errors |-> [i \in 1..Len(pr.result.errors) |->
                                          [message |-> pr.result.errors[i].message,
                                           line |-> pr.result.errors[i].location.line,
                                           column |-> pr.result.errors[i].location.column]]]]))

-----------------------------------------------------------------------------
(* Inputs of the lexer *)

LexAlphabet == {"(", " ", "\n", "\"", ";", "u", "1", "-", "#"}

RECURSIVE SourcesUpTo(_)
SourcesUpTo(n) ==
  IF n = 0 THEN {""}
  ELSE LET shorter == SourcesUpTo(n - 1)
       IN  shorter \cup {c \o s : c \in LexAlphabet, s \in shorter}

LiteralsSource == "u42 -15 true \"hello\" 0x1234 'SP1234"

LexSources == SourcesUpTo(MaxSrcLen) \cup {LiteralsSource}

-----------------------------------------------------------------------------
(* Inputs of the parser: phrases over a few words, and the sources of the  *)
(* repository's tests and scenarios                                        *)

ParseWords == {"(", ")", "define-constant", "a", "u1", "ok"}

RECURSIVE PhrasesUpTo(_)
PhrasesUpTo(n) ==
  IF n = 0 THEN {""}
  ELSE LET shorter == PhrasesUpTo(n - 1)
       IN  shorter \cup {IF s = "" THEN w ELSE w \o " " \o s :
                          w \in ParseWords, s \in shorter}

ScenarioA == "(define-constant contract-owner tx-sender)"

MissingParen == "(define-constant missing-paren"

FunctionTest == "(define-public (test-function (param1 uint)) (ok param1))"

KeywordCallees == {"ok", "+", "var-set", "is-eq", "contract-call?"}

KeywordCall(callee) == "(define-constant a (" \o callee \o " u1 b))"

UnusedMap == "(define-constant a u1) (define-map m uint uint)"

\* a form with an unknown leading word, and a definition without its value,
\* each followed by a well-formed definition
UnknownForm == "(foo u1) (define-constant a u1)"

MalformedForm == "(define-constant b) (define-constant a u1)"

ParseSources ==
  PhrasesUpTo(MaxWords)
    \cup {ScenarioA, MissingParen, FunctionTest, UnusedMap, "(foo u1 b)",
          UnknownForm, MalformedForm}
    \cup {KeywordCall(callee) : callee \in KeywordCallees}

\* token sequences handed to parseTokens: what the lexer makes of a source,
\* and the same with the text of its number token replaced by a non-number
BadNumber(tokens) ==
  [i \in 1..Len(tokens) |->
     IF tokens[i].type = "UINT" THEN [tokens[i] EXCEPT !.value = "x"] ELSE tokens[i]]

TokenInputs ==
  LET lexed == {tokenize(LexerNew, src).tokens :
                  src \in {"(define-constant a u1)", "(define-constant a u1) (define-map m uint uint)",
                           MissingParen, ""}}
  IN  lexed \cup {BadNumber(tokens) : tokens \in lexed}

-----------------------------------------------------------------------------
(* Inputs of the analyzers: programs over a pool of statements.  Nodes the *)
(* parser returns are taken from it; calls of builtin keywords are built   *)
(* as parseFunctionCall builds a call                                      *)

\* the statements the programs are built from, as two sources
PoolSource ==
  "(define-constant a u1) (define-constant a true) "
  \o "(define-data-var v uint a) (define-data-var v bool true) "
  \o "(define-map m uint uint) (define-map m uint bool)"

FunctionsSource ==
  "(define-public (f) a) (define-private (f (x uint)) x) (define-trait t) "
  \o "(define-public (withdraw (amount uint) (recipient principal) (balance uint)) amount) "
  \o "(define-map balances principal uint) (define-constant b u1)"

Call(name, arguments) ==
  [type |-> "function-call", function |-> createIdentifier(name),
   arguments |-> arguments, isBuiltin |-> FALSE, isExternal |-> FALSE,
   canFail |-> FALSE, sideEffects |-> <<>>]

\* parsed is the body of the program parsed from PoolSource followed by the
\* body of the program parsed from FunctionsSource
UintOne(parsed) == parsed[1].value

StmtPool(parsed) ==
  {parsed[i] : i \in 1..6} \cup
  {[parsed[7] EXCEPT
      !.body = <<Call("var-get", <<createIdentifier("v")>>),
                 Call("map-get?", <<createIdentifier("m"), UintOne(parsed)>>)>>],
   [parsed[8] EXCEPT
      !.body = <<Call("var-set", <<createIdentifier("v"), UintOne(parsed)>>),
                 Call("map-set", <<createIdentifier("m"), UintOne(parsed),
                                   UintOne(parsed)>>)>>],
   parsed[9],
   [parsed[9] EXCEPT !.functions = <<"g">>]}

RECURSIVE BodiesUpTo(_, _)
BodiesUpTo(n, pool) ==
  IF n = 0 THEN {<<>>}
  ELSE With(BodiesUpTo(n - 1, pool), LAMBDA shorter :
         shorter \cup {<<statement>> \o body : statement \in pool, body \in shorter})

\* Scenario C: the transfer is unwrapped, then the balance is written
Withdraw(parsed) ==
  [parsed[10] EXCEPT !.body =
     <<Call("unwrap!", <<Call("stx-transfer?", <<createIdentifier("amount"),
                                                 createIdentifier("tx-sender"),
                                                 createIdentifier("recipient")>>),
                         Call("err", <<UintOne(parsed)>>)>>),
       Call("map-set", <<createIdentifier("balances"), createIdentifier("tx-sender"),
                         Call("-", <<createIdentifier("balance"),
                                     createIdentifier("amount")>>)>>)>>]

ScenarioC(parsed) == <<parsed[11], Withdraw(parsed)>>

\* a call node without its arguments array: analyzeFunctionCall throws on it
Malformed(parsed) ==
  <<parsed[1],
    [parsed[12] EXCEPT
       !.value = [type |-> "function-call", function |-> createIdentifier("g")]]>>

Begin(body) == [type |-> "begin-expression", body |-> body, canFail |-> FALSE]

\* Scenario D: (define-data-var admin-setting uint u1) and the public function
\* change-admin-setting (new-value uint) with the given body
AdminSetting(parsed) ==
  [parsed[3] EXCEPT !.name = "admin-setting", !.initialValue = UintOne(parsed)]

ChangeAdminSetting(parsed, body) ==
  [parsed[10] EXCEPT !.name = "change-admin-setting",
                     !.parameters = <<[parsed[10].parameters[1] EXCEPT !.name = "new-value"]>>,
                     !.body = body]

VarSetAdmin ==
  Call("var-set", <<createIdentifier("admin-setting"), createIdentifier("new-value")>>)

OkTrue(parsed) == Call("ok", <<parsed[4].initialValue>>)

ScenarioD(parsed) ==
  <<AdminSetting(parsed), ChangeAdminSetting(parsed, <<VarSetAdmin, OkTrue(parsed)>>)>>

ScenarioDBegin(parsed) ==
  <<AdminSetting(parsed),
    ChangeAdminSetting(parsed, <<Begin(<<VarSetAdmin, OkTrue(parsed)>>)>>)>>

\* (asserts! (is-eq tx-sender contract-owner) (err u1))
AssertsOwner(parsed) ==
  Call("asserts!", <<Call("is-eq", <<createIdentifier("tx-sender"),
                                     createIdentifier("contract-owner")>>),
                     Call("err", <<UintOne(parsed)>>)>>)

\* Scenario D with the check of the owner before the write
Authorized(parsed) ==
  <<[parsed[12] EXCEPT !.name = "contract-owner"], AdminSetting(parsed),
    ChangeAdminSetting(parsed, <<AssertsOwner(parsed), VarSetAdmin, OkTrue(parsed)>>)>>

\* (define-private (g) u1) and the public function f with the given body
Callee(parsed) ==
  [parsed[8] EXCEPT !.name = "g", !.parameters = <<>>, !.body = <<UintOne(parsed)>>]

Caller(parsed, body) == <<Callee(parsed), [parsed[7] EXCEPT !.body = body]>>

CallGraphBodies(parsed) ==
  {Caller(parsed, <<Call("g", <<>>)>>),
   Caller(parsed, <<Begin(<<Call("g", <<>>)>>)>>),
   Caller(parsed, <<UintOne(parsed)>>)}

\* two public functions that write the variable admin-setting
TwoWriters(parsed) ==
  <<AdminSetting(parsed),
    ChangeAdminSetting(parsed, <<VarSetAdmin, OkTrue(parsed)>>),
    [ChangeAdminSetting(parsed, <<VarSetAdmin>>) EXCEPT !.name = "reset-admin-setting"]>>

\* calls a flat body is made of: two external calls, two writes of contract
\* state, and a call that is neither
ContractCall == Call("contract-call?", <<createIdentifier(".token"), createIdentifier("transfer")>>)

TokenTransfer == Call(".token.transfer", <<createIdentifier("new-value")>>)

MapDeleteBalances == Call("map-delete", <<createIdentifier("balances"), createIdentifier("tx-sender")>>)

FlatCalls(parsed) == {ContractCall, TokenTransfer, VarSetAdmin, MapDeleteBalances, OkTrue(parsed)}

\* change-admin-setting with every flat body, and a program of two functions
\* whose bodies are the two orders of an external call and a write
FlatBodies(parsed) ==
  {<<AdminSetting(parsed), parsed[11], ChangeAdminSetting(parsed, body)>> :
     body \in BodiesUpTo(MaxStmts, FlatCalls(parsed))}
  \cup {<<AdminSetting(parsed),
          ChangeAdminSetting(parsed, <<ContractCall, VarSetAdmin>>),
          [ChangeAdminSetting(parsed, <<VarSetAdmin, ContractCall>>)
             EXCEPT !.name = "reset-admin-setting"]>>}

\* statements that declare the name n as a constant, a variable, a function
\* and a parameter, and functions whose bodies are the identifier n, an
\* undeclared name and a dotted name
NamedN(parsed) ==
  {[parsed[1] EXCEPT !.name = "n"],
   [AdminSetting(parsed) EXCEPT !.name = "n"],
   [parsed[7] EXCEPT !.name = "n", !.body = <<UintOne(parsed)>>],
   [parsed[8] EXCEPT !.name = "g", !.parameters = <<[@[1] EXCEPT !.name = "n"]>>,
                     !.body = <<createIdentifier("n")>>],
   [parsed[7] EXCEPT !.name = "h", !.body = <<createIdentifier("n")>>],
   [parsed[7] EXCEPT !.name = "k",
                     !.body = <<createIdentifier("zz"), createIdentifier(".token.transfer")>>]}

\* n as a constant and as a variable, read under a parameter n and without
Shadowing(parsed) ==
  <<[parsed[1] EXCEPT !.name = "n"],
    [AdminSetting(parsed) EXCEPT !.name = "n"],
    [parsed[8] EXCEPT !.name = "g", !.parameters = <<[@[1] EXCEPT !.name = "n"]>>,
                      !.body = <<createIdentifier("n")>>],
    [parsed[7] EXCEPT !.name = "h",
                      !.body = <<createIdentifier("n"), createIdentifier("zz")>>]>>

IdentifierBodies(parsed) == BodiesUpTo(MaxStmts, NamedN(parsed)) \cup {Shadowing(parsed)}

\* (let ((name value)) body...)
Let(name, value, body) ==
  [type |-> "let-expression",
   bindings |-> <<[type |-> "binding", name |-> name, value |-> value]>>,
   body |-> body]

\* the names x and y, read
Reads == {createIdentifier("x"), createIdentifier("y")}

\* a let that binds x or y to true or to the value of y, with one read as body
Lets(parsed) ==
  {Let(name, value, <<read>>) :
     name \in {"x", "y"}, value \in {parsed[4].initialValue, createIdentifier("y")},
     read \in Reads}

\* a let around a let, followed in its body by a read or not
NestedLets(parsed) ==
  {Let(name, parsed[1].value, <<inner>> \o after) :
     name \in {"x", "y"}, inner \in Lets(parsed), after \in {<<>>} \cup {<<r>> : r \in Reads}}

\* the private function g (x uint) whose body is a let, a let and a read
\* after it, two sibling lets, or a nested let and a read after it
LetBodies(parsed) ==
  {<<[parsed[8] EXCEPT !.name = "g", !.body = body]>> :
     body \in {<<l>> \o after : l \in Lets(parsed) \cup NestedLets(parsed),
                                 after \in {<<>>} \cup {<<r>> : r \in Reads}}
              \cup {<<l1, l2>> : l1, l2 \in Lets(parsed)}}

\* (define-constant c c)
SelfReferring(parsed) ==
  <<[parsed[1] EXCEPT !.name = "c", !.value = createIdentifier("c")]>>

\* (define-constant c d) (define-constant d c)
MutuallyReferring(parsed) ==
  <<[parsed[1] EXCEPT !.name = "c", !.value = createIdentifier("d")],
    [parsed[1] EXCEPT !.name = "d", !.value = createIdentifier("c")]>>

ProgramsOf(parsed) ==
  {[type |-> "program", body |-> body] :
     body \in BodiesUpTo(MaxStmts, StmtPool(parsed))
              \cup {ScenarioC(parsed), Malformed(parsed), ScenarioD(parsed),
                    ScenarioDBegin(parsed), Authorized(parsed), TwoWriters(parsed),
                    SelfReferring(parsed), MutuallyReferring(parsed)}
              \cup CallGraphBodies(parsed) \cup FlatBodies(parsed)
              \cup IdentifierBodies(parsed) \cup LetBodies(parsed)}

AnalyzerInputs ==
  ProgramsOf(parse(ParserNew, PoolSource).result.ast.body
             \o parse(ParserNew, FunctionsSource).result.ast.body)

\* sources handed to a service that has just been constructed, and to one
\* that has served calls before
PartialProgram == "(define-constant a u1) " \o MissingParen

ServiceSources ==
  {"", "(define-constant a u1)", "(define-constant a b)", UnusedMap, ScenarioA,
   MissingParen, PartialProgram, FunctionTest, "(define-constant a u1) (define-constant a u1)",
   "(define-private (f (x uint)) x)"}

ReuseSources == {"(define-constant a u1)", UnusedMap, MissingParen, "(define-constant a b)"}

-----------------------------------------------------------------------------
(* Specification.  One call runs at a time: a call of a component starts   *)
(* only while every component is as constructed, except that the service   *)
(* serves further calls after its first.                                   *)

Init ==
  /\ lexer = LexerNew /\ lexpc = "idle"
  /\ parser = ParserNew /\ ppc = "idle" /\ pbody = <<>> /\ presult = Null
  /\ analyzer = AnalyzerNew /\ apc = "idle" /\ aast = Null /\ aidx = 0
  /\ aresult = Null /\ vulnerabilities = <<>> /\ issues = <<>> /\ callGraph = <<>>
  /\ dataFlowGraph = <<>>
  /\ service = ServiceNew /\ spc = "idle" /\ calls = 0 /\ sresult = Null

Idle == lexpc = "idle" /\ ppc = "idle" /\ apc = "idle" /\ spc = "idle"

(* ClarityLexer.tokenize, one step per iteration of its loop *)

\* tokenize(source): reset, store the source
LexStart ==
  /\ Idle
  /\ \E src \in LexSources :
       lexer' = [lexReset(lexer) EXCEPT !.source = src]
  /\ lexpc' = "scan"
  /\ UNCHANGED <<parseVars, semVars, svcVars>>

\* one iteration of while (!isAtEnd()) scanToken()
LexScan ==
  /\ lexpc = "scan"
  /\ ~lexIsAtEnd(lexer)
  /\ lexer' = scanToken(lexer)
  /\ lexpc' = "scan"
  /\ UNCHANGED <<parseVars, semVars, svcVars>>

\* loop exit: addToken(EOF, ''); return tokens
LexFinish ==
  /\ lexpc = "scan"
  /\ lexIsAtEnd(lexer)
  /\ lexer' = addToken(lexer, "EOF", "")
  /\ lexpc' = "done"
  /\ UNCHANGED <<parseVars, semVars, svcVars>>

(* EnhancedClarityParser.parse / parseTokens, one step per iteration of the *)
(* loop of parseProgram                                                     *)

\* parse(source): reset, tokenize, and parseProgram up to its loop
ParseStart ==
  /\ Idle
  /\ \E src \in ParseSources :
       LET p0 == parserReset(parser)
           tokenized(lx) ==
             parser' = skipWhitespace([p0 EXCEPT !.lexer = lx, !.tokens = lx.tokens])
       IN  tokenized(tokenize(p0.lexer, src))
  /\ pbody' = <<>>
  /\ ppc' = "loop"
  /\ UNCHANGED <<presult, lexVars, semVars, svcVars>>

\* parseTokens(tokens): reset, and parseProgram up to its loop
ParseTokensStart ==
  /\ Idle
  /\ \E tokens \in TokenInputs :
       parser' = skipWhitespace([parserReset(parser) EXCEPT !.tokens = tokens])
  /\ pbody' = <<>>
  /\ ppc' = "loop"
  /\ UNCHANGED <<presult, lexVars, semVars, svcVars>>

\* one iteration of while (!isAtEnd()); a sub-parser whose loop never ends
\* leaves the call at "hang"
ParseIteration ==
  /\ ppc = "loop"
  /\ ~isAtEnd(parser)
  /\ Len(parser.errors) < MaxErrors
  /\ LET iterated(r) ==
           /\ parser' = r.p
           /\ pbody' = IF r.st = "hang" THEN pbody ELSE r.node
           /\ ppc' = IF r.st = "hang" THEN "hang" ELSE "loop"
     IN  iterated(topLevelIteration(parser, pbody))
  /\ UNCHANGED <<presult, lexVars, semVars, svcVars>>

\* loop exit: the program node, and the return (or the catch) of parse
ParseFinish ==
  /\ ppc = "loop"
  /\ isAtEnd(parser)
  /\ LET returned(r) ==
           /\ parser' = r.p
           /\ presult' = r.result
     IN  returned(parseReturn(finishProgram(parser, pbody)))
  /\ ppc' = "done"
  /\ UNCHANGED <<pbody, lexVars, semVars, svcVars>>

(* EnhancedSemanticAnalyzer.analyze, one step per statement of each pass,  *)
(* then EnhancedStaticAnalyzer on the analyzed AST                         *)

\* analyze(ast): reset
SemStart ==
  /\ Idle
  /\ \E ast \in AnalyzerInputs : aast' = ast
  /\ analyzer' = analyzerReset(analyzer)
  /\ aidx' = 1
  /\ apc' = "collect"
  /\ UNCHANGED <<aresult, staticVars, lexVars, parseVars, svcVars>>

\* one iteration of the loop of collectDeclarations
SemCollect ==
  /\ apc = "collect"
  /\ aidx <= Len(aast.body)
  /\ analyzer' = collectStatement(analyzer, aast.body[aidx])
  /\ aidx' = aidx + 1
  /\ UNCHANGED <<apc, aast, aresult, staticVars, lexVars, parseVars, svcVars>>

SemCollected ==
  /\ apc = "collect"
  /\ aidx > Len(aast.body)
  /\ apc' = "analyze"
  /\ aidx' = 1
  /\ UNCHANGED <<analyzer, aast, aresult, staticVars, lexVars, parseVars, svcVars>>

\* one iteration of the loop of analyzeExpressions; what it throws is caught
\* by analyze, which returns
SemAnalyze ==
  /\ apc = "analyze"
  /\ aidx <= Len(aast.body)
  /\ LET caught(ret) == /\ analyzer' = ret.az
                          /\ aresult' = ret.result
                          /\ apc' = "done"
                          /\ UNCHANGED aidx
         analyzed(r, ast1) ==
           /\ aast' = ast1
           /\ IF r.st = "ok"
              THEN /\ analyzer' = r.az
                   /\ aidx' = aidx + 1
                   /\ UNCHANGED <<apc, aresult>>
              ELSE caught(analyzeReturn(r.az, ast1, "throw"))
         iterated(r) == analyzed(r, [aast EXCEPT !.body[aidx] = r.node])
     IN  iterated(analyzeStatement(analyzer, aast.body[aidx]))
  /\ UNCHANGED <<staticVars, lexVars, parseVars, svcVars>>

\* performUsageAnalysis, updateAstWithSemanticInfo, return
SemFinish ==
  /\ apc = "analyze"
  /\ aidx > Len(aast.body)
  /\ LET returned(ret) == /\ analyzer' = ret.az
                            /\ aast' = ret.ast
                            /\ aresult' = ret.result
         checked(az1) ==
           returned(analyzeReturn(az1, updateAstWithSemanticInfo(az1, aast), "ok"))
     IN  checked(performUsageAnalysis(analyzer, aast))
  /\ apc' = "done"
  /\ UNCHANGED <<aidx, staticVars, lexVars, parseVars, svcVars>>

\* analyzeEnhanced(ast) on the AST analyze has returned, and again on the
\* same AST after it has returned; a call that throws leaves no result
StaticAnalyze ==
  /\ apc \in {"done", "static"}
  /\ LET returned(result) ==
           IF "thrown" \in DOMAIN result
           THEN /\ apc' = "threw"
                /\ aast' = result.ast
                /\ UNCHANGED staticVars
           ELSE /\ apc' = (IF apc = "done" THEN "static" ELSE "again")
                /\ aast' = result.ast
                /\ vulnerabilities' = result.vulnerabilities
                /\ issues' = result.issues
                /\ callGraph' = result.callGraph
                /\ dataFlowGraph' = result.dataFlowGraph
     IN  returned(analyzeEnhanced(aast))
  /\ UNCHANGED <<analyzer, aidx, aresult, lexVars, parseVars, svcVars>>

(* EnhancedClarityParserService: one step per call *)

ServiceInputs ==
  IF spc = "idle" THEN ServiceSources
  ELSE IF spc = "ready" /\ calls < MaxCalls THEN ReuseSources
  ELSE {}

Served(operation, src, r) ==
  /\ service' = r.svc
  /\ spc' = IF r.st = "hang" THEN "hang" ELSE "ready"
  /\ calls' = calls + 1
  /\ sresult' = [operation |-> operation, source |-> src, st |-> r.st, result |-> r.result]

ServiceParseText ==
  /\ lexpc = "idle" /\ ppc = "idle" /\ apc = "idle"
  /\ \E src \in ServiceInputs : Served("parseText", src, parseText(service, src))
  /\ UNCHANGED <<lexVars, parseVars, semVars>>

ServiceValidateSyntax ==
  /\ lexpc = "idle" /\ ppc = "idle" /\ apc = "idle"
  /\ \E src \in ServiceInputs : Served("validateSyntax", src, validateSyntax(service, src))
  /\ UNCHANGED <<lexVars, parseVars, semVars>>

Next ==
  \/ LexStart \/ LexScan \/ LexFinish
  \/ ParseStart \/ ParseTokensStart \/ ParseIteration \/ ParseFinish
  \/ SemStart \/ SemCollect \/ SemCollected \/ SemAnalyze \/ SemFinish \/ StaticAnalyze
  \/ ServiceParseText \/ ServiceValidateSyntax

Spec == Init /\ [][Next]_vars

\* The lexer on its own.  tokenize is a plain loop on one thread: a call that
\* has started keeps taking its next step
LexNext == LexStart \/ LexScan \/ LexFinish

SpecLexer == Init /\ [][LexNext]_vars /\ WF_vars(LexScan \/ LexFinish)

-----------------------------------------------------------------------------
(* Properties of ClarityLexer *)

EofCount(tokens) == Cardinality({i \in 1..Len(tokens) : tokens[i].type = "EOF"})

\* C4: tokenize is total.  Every iteration of its loop moves the position
\* forward in the same source, so the loop ends (under
\* SpecLexer a call that has started does return); the returned sequence holds
\* exactly one end-of-file token, and that token is its last element.
C4_TokenizeTotal ==
  /\ [](lexpc = "done" =>
          /\ Len(lexer.tokens) >= 1
          /\ lexer.tokens[Len(lexer.tokens)].type = "EOF"
          /\ EofCount(lexer.tokens) = 1)
  /\ [][lexpc = "scan" =>
          \/ lexpc' = "done"
          \/ /\ lexer'.position > lexer.position
             /\ lexer'.source = lexer.source]_vars
  /\ (lexpc = "scan" ~> lexpc = "done")

\* the call on an unterminated string literal has returned: the literal gave
\* no token, the end-of-file token is the only one
C4_UnterminatedString ==
  /\ lexpc = "done"
  /\ lexer.source = "\"u"
  /\ Len(lexer.tokens) = 1

\* the filter of the literals test
literalTokens(tokens) ==
  SelectSeq(tokens, LAMBDA t : t.type \in {"UINT", "INT", "BOOL", "STRING_ASCII",
                                           "BUFF", "PRINCIPAL"})

\* C6: a number written with a leading minus sign is one INT token whose
\* value includes the sign, and the source of the literals test gives six
\* literal tokens: UINT 42, INT -15, BOOL true, STRING_ASCII, BUFF, PRINCIPAL.
C6_SignedIntegerLiteral ==
  lexpc = "done" =>
    /\ lexer.source = "-1" =>
         /\ Len(lexer.tokens) = 2
         /\ lexer.tokens[1].type = "INT"
         /\ lexer.tokens[1].value = "-1"
    /\ lexer.source = LiteralsSource =>
         LET literals == literalTokens(lexer.tokens)
         IN  /\ [i \in 1..Len(literals) |-> literals[i].type]
                  = <<"UINT", "INT", "BOOL", "STRING_ASCII", "BUFF", "PRINCIPAL">>
             /\ literals[1].value = "42"
             /\ literals[2].value = "-15"
             /\ literals[3].value = "true"

-----------------------------------------------------------------------------
(* Properties of EnhancedClarityParser *)

\* C1: parse and parseTokens terminate.  Every iteration of the top-level
\* loop of parseProgram ends, every 'repeat until closing paren' loop inside it
\* having ended, and has consumed at least one token.
C1_ForwardProgress ==
  [][(ppc = "loop" /\ ppc' # "done") =>
       /\ ppc' = "loop"
       /\ parser'.current > parser.current]_vars

\* C2: (callee u1 b), callee a builtin keyword, parses without an error into
\* a function call whose callee is the identifier of that text and whose
\* arguments are u1 and b in this order.
C2_KeywordCallParses ==
  \A callee \in KeywordCallees :
    (ppc \in {"done", "hang"} /\ parser.lexer.source = KeywordCall(callee)) =>
      /\ ppc = "done"
      /\ Len(presult.errors) = 0
      /\ presult.ast.body[1].value.type = "function-call"
      /\ presult.ast.body[1].value.function = createIdentifier(callee)
      /\ Len(presult.ast.body[1].value.arguments) = 2
      /\ presult.ast.body[1].value.arguments[1].type = "uint-literal"
      /\ presult.ast.body[1].value.arguments[2] = createIdentifier("b")

SuccessIffNoErrors(result) == result.success <=> Len(result.errors) = 0

\* C3: in every result record of parse / parseTokens, of analyze and of
\* parseText (its own, and the parse and semantic results it carries), success
\* is true exactly when the error list is empty, whatever the warnings.
C3_SuccessIffNoErrors ==
  /\ ppc = "done" => SuccessIffNoErrors(presult)
  /\ apc \in {"done", "static"} => SuccessIffNoErrors(aresult)
  /\ (spc # "idle" /\ sresult.operation = "parseText" /\ sresult.st = "ok") =>
       /\ SuccessIffNoErrors(sresult.result)
       /\ SuccessIffNoErrors(sresult.result.parseResult)
       /\ sresult.result.semanticResult # Null =>
            SuccessIffNoErrors(sresult.result.semanticResult)

\* parseText has returned success with warnings in its result
C3_SuccessWithWarnings ==
  /\ spc = "ready"
  /\ sresult.operation = "parseText"
  /\ sresult.result.success
  /\ Len(sresult.result.errors) = 0
  /\ Len(sresult.result.warnings) > 0

\* C5: parseText on (define-constant contract-owner tx-sender) returns
\* success, with a program of one constant-definition named contract-owner
\* whose used flag is false.
C5_ConstantNamedByKeyword ==
  (spc # "idle" /\ sresult.operation = "parseText" /\ sresult.source = ScenarioA) =>
    /\ sresult.st = "ok"
    /\ sresult.result.success
    /\ Len(sresult.result.ast.body) = 1
    /\ sresult.result.ast.body[1].type = "constant-definition"
    /\ sresult.result.ast.body[1].name = "contract-owner"
    /\ ~sresult.result.ast.body[1].used

-----------------------------------------------------------------------------
(* Properties of EnhancedSemanticAnalyzer *)

Categories ==
  [functions |-> [statement |-> "function-definition", label |-> "Function"],
   constants |-> [statement |-> "constant-definition", label |-> "Constant"],
   variables |-> [statement |-> "data-var-definition", label |-> "Variable"],
   maps      |-> [statement |-> "map-definition",      label |-> "Map"],
   traits    |-> [statement |-> "trait-definition",    label |-> "Trait"]]

\* the positions in body of the definitions of name in category
DefinitionsOf(body, category, name) ==
  {i \in 1..Len(body) : body[i].type = Categories[category].statement /\ body[i].name = name}

AlreadyDefined(errors, category, name) ==
  Cardinality({i \in 1..Len(errors) :
                 errors[i].message
                   = Categories[category].label \o " '" \o name \o "' is already defined"})

\* C7: when the declarations are collected, a name defined twice in a
\* category has exactly one 'already defined' error, the entry of every
\* defined name is the one its first definition gives, and every defined name
\* is registered; the one error is still the only one when analyze returns.
C7_FirstDefinitionWins ==
  \A category \in DOMAIN Categories :
    \A i \in (IF apc \in {"analyze", "done", "static"} THEN 1..Len(aast.body) ELSE {}) :
      aast.body[i].type = Categories[category].statement =>
        LET name == aast.body[i].name
            same == DefinitionsOf(aast.body, category, name)
            first == CHOOSE j \in same : \A k \in same : j <= k
            errors == IF apc = "analyze" THEN analyzer.errors ELSE aresult.errors
        IN  /\ Cardinality(same) = 2 => AlreadyDefined(errors, category, name) = 1
            /\ mapHas(analyzer.typeEnvironment[category], name)
            /\ (apc = "analyze" /\ aidx = 1) =>
                 mapGet(analyzer.typeEnvironment[category], name)
                   = collectStatement(AnalyzerNew, aast.body[first])
                       .typeEnvironment[category][1]

\* the declarations are collected: two different definitions of one name,
\* then a definition of another name
C7_DuplicateThenOther ==
  /\ apc = "analyze" /\ aidx = 1
  /\ Len(aast.body) = 3
  /\ aast.body[1].type = aast.body[2].type
  /\ aast.body[1].name = aast.body[2].name
  /\ aast.body[1] # aast.body[2]
  /\ aast.body[3].name # aast.body[1].name
  /\ Len(analyzer.errors) = 1

\* the flags that are true in the type environment of az
RaisedFlags(az) ==
  LET env == az.typeEnvironment
  IN  {<<"constants", env.constants[i].name, "used">> :
         i \in {j \in 1..Len(env.constants) : env.constants[j].used}}
      \cup {<<"variables", env.variables[i].name, "accessed">> :
              i \in {j \in 1..Len(env.variables) : env.variables[j].accessed}}
      \cup {<<"variables", env.variables[i].name, "modified">> :
              i \in {j \in 1..Len(env.variables) : env.variables[j].modified}}
      \cup {<<"maps", env.maps[i].name, "accessed">> :
              i \in {j \in 1..Len(env.maps) : env.maps[j].accessed}}
      \cup {<<"maps", env.maps[i].name, "modified">> :
              i \in {j \in 1..Len(env.maps) : env.maps[j].modified}}

\* C8: within one analyze run a usage flag that is true stays true: no step
\* of the run takes a flag from true to false.
C8_FlagsOnlyRaised ==
  [][apc # "idle" => RaisedFlags(analyzer) \subseteq RaisedFlags(analyzer')]_vars

\* a flag of a variable is raised and a statement is still to be analyzed
C8_FlagRaisedMidRun ==
  /\ apc = "analyze"
  /\ aidx <= Len(aast.body)
  /\ \E f \in RaisedFlags(analyzer) : f[1] = "variables"

-----------------------------------------------------------------------------
(* Properties of EnhancedClarityParserService *)

\* what a newly constructed service returns for the call recorded in sresult
FreshRun ==
  IF sresult.operation = "parseText" THEN parseText(ServiceNew, sresult.source)
  ELSE validateSyntax(ServiceNew, sresult.source)

\* C9: whatever the instances of a service processed before, a call returns
\* what the same call returns on newly constructed instances: the same AST,
\* the same errors and warnings, the same type environment.
C9_ReuseIndistinguishable ==
  spc \in {"ready", "hang"} =>
    With(FreshRun, LAMBDA fresh : sresult.st = fresh.st /\ sresult.result = fresh.result)

\* the second call of a service has returned a semantic result
C9_SecondCallAnalyzed ==
  /\ spc = "ready"
  /\ calls = 2
  /\ sresult.operation = "parseText"
  /\ sresult.result.semanticResult # Null

-----------------------------------------------------------------------------
(* Properties of EnhancedStaticAnalyzer *)

Contains(text, part) ==
  \E i \in 1..Len(text) : \E j \in i..Len(text) : SubSeq(text, i, j) = part

OfCategory(found, category) == SelectSeq(found, LAMBDA v : v.category = category)

\* C10: for the program of Scenario C, whose public function withdraw
\* unwraps a transfer and then writes the balances map, exactly one
\* vulnerability of category reentrancy is reported, its risk level is high,
\* and its message names withdraw.
C10_WithdrawReported ==
  (/\ apc = "static"
   /\ \E i \in 1..Len(aast.body) :
        /\ aast.body[i].type = "function-definition"
        /\ aast.body[i].name = "withdraw") =>
    LET reported == OfCategory(vulnerabilities, "reentrancy")
    IN  /\ Len(reported) = 1
        /\ reported[1].riskLevel = "high"
        /\ Contains(reported[1].message, "withdraw")

\* public functions named change-admin-setting in the analyzed program
ChangeAdminSettings ==
  {i \in 1..Len(aast.body) :
     /\ aast.body[i].type = "function-definition"
     /\ aast.body[i].name = "change-admin-setting"}

\* the nodes of the given type in the expressions, at any depth
NodesIn(expressions, nodeType) ==
  findNodesByType([body |-> expressions], nodeType)

SeqToSet(seq) == {seq[i] : i \in 1..Len(seq)}

\* some asserts! / is-eq call in the expressions, at any depth, has an
\* authorization identifier below it
ChecksAuthorization(expressions) ==
  \E call \in SeqToSet(NodesIn(expressions, "function-call")) :
    /\ getFunctionName(call.function) \in {"asserts!", "is-eq"}
    /\ \E id \in SeqToSet(NodesIn(<<call>>, "identifier")) :
         id.name \in {"tx-sender", "contract-caller", "contract-owner"}

\* some call of one of the callees in the expressions, at any depth
CallsAnyOf(expressions, callees) ==
  \E call \in SeqToSet(NodesIn(expressions, "function-call")) :
    getFunctionName(call.function) \in callees

OfType(found, type) == SelectSeq(found, LAMBDA v : v.type = type)

\* C11: a public function that calls (var-set admin-setting new-value), as
\* an element of its body or inside a begin block, and has no asserts! / is-eq
\* call naming tx-sender, contract-caller or contract-owner in its body has
\* exactly one missing-authorization vulnerability, of risk level high.
C11_MissingAuthorization ==
  (/\ apc = "static"
   /\ ChangeAdminSettings # {}
   /\ \A i \in ChangeAdminSettings : ~ChecksAuthorization(aast.body[i].body)) =>
    LET reported == OfType(vulnerabilities, "missing-authorization")
    IN  /\ Len(reported) = 1
        /\ reported[1].riskLevel = "high"

\* C12: a public state-modifying function whose body holds an authorization
\* check such as (asserts! (is-eq tx-sender contract-owner) (err u401)) has no
\* missing-authorization finding: the finding is made only when no asserts! /
\* is-eq call of the body refers to tx-sender, contract-caller or
\* contract-owner.
C12_AuthorizedNotReported ==
  \A i \in (IF apc = "static" THEN 1..Len(aast.body) ELSE {}) :
    (/\ aast.body[i].type = "function-definition"
     /\ ChecksAuthorization(aast.body[i].body)) =>
      \A v \in SeqToSet(OfType(vulnerabilities, "missing-authorization")) :
        v.message # authorizationIssue(aast.body[i]).message

\* C13: whenever the parser produced an AST, with or without parse errors,
\* parseText has run the semantic analysis on it and the result's warnings
\* hold the advisory findings of the analysis.
C13_AnalyzedDespiteParseErrors ==
  (/\ spc = "ready"
   /\ sresult.operation = "parseText"
   /\ sresult.result.parseResult.ast # Null) =>
    /\ sresult.result.semanticResult # Null
    /\ \A i \in 1..Len(sresult.result.parseResult.ast.body) :
         sresult.result.parseResult.ast.body[i].type = "constant-definition" =>
           \E j \in 1..Len(sresult.result.warnings) :
             sresult.result.warnings[j].message
               = "Constant '" \o sresult.result.parseResult.ast.body[i].name
                 \o "' is never used"

\* C14: for a source whose last form is a define-constant with a name but
\* neither value nor closing paren, parseText and validateSyntax return (no
\* exception, no endless loop) with success / valid false and at least one
\* error; the AST of parseText is null or a program.
C14_MissingParenRejected ==
  (spc # "idle" /\ sresult.source \in {MissingParen, PartialProgram}) =>
    /\ sresult.st = "ok"
    /\ Len(sresult.result.errors) > 0
    /\ IF sresult.operation = "parseText"
       THEN /\ ~sresult.result.success
            /\ sresult.result.ast = Null \/ sresult.result.ast.type = "program"
       ELSE ~sresult.result.valid

\* validateSyntax has returned for the source of the syntax-error test, on a
\* service that served a call before
C14_SyntaxErrorDetected ==
  /\ spc = "ready"
  /\ calls = 2
  /\ sresult.operation = "validateSyntax"
  /\ sresult.source = MissingParen
  /\ ~sresult.result.valid
  /\ Len(sresult.result.errors) = 2

\* C15: after an error in a top-level form, a form with an unknown leading
\* word included, parsing resumes at the next top-level construct: the
\* well-formed definition that follows is parsed and appended to the body of
\* the program, and one error is reported for the bad form.
C15_RecoversAtNextForm ==
  (ppc # "idle" /\ parser.lexer.source \in {UnknownForm, MalformedForm}) =>
    /\ ppc # "hang"
    /\ Len(parser.errors) <= 1
    /\ ppc = "done" =>
         /\ Len(presult.errors) = 1
         /\ presult.ast # Null
         /\ Len(presult.ast.body) >= 1
         /\ LET last == presult.ast.body[Len(presult.ast.body)]
            IN  /\ last.type = "constant-definition"
                /\ last.name = "a"
                /\ last.value.type = "uint-literal"

\* the function definitions of the program analyze has returned normally
AnalyzedFunctions ==
  IF apc \in {"done", "static"} /\ "typeEnvironment" \in DOMAIN aast
  THEN {i \in 1..Len(aast.body) : aast.body[i].type = "function-definition"}
  ELSE {}

\* C16: after analyze, modifiesState of a function is true exactly when its
\* body holds, at any depth, a call of var-set, map-set, map-insert or
\* map-delete; callsExternal exactly when it holds an external call at any
\* depth; canFail exactly when it holds, at any depth, a call whose own
\* canFail flag is true.
C16_SummaryFlags ==
  \A i \in AnalyzedFunctions :
    LET func == aast.body[i]
        inside == SeqToSet(NodesIn(func.body, "function-call"))
    IN  /\ func.modifiesState
             <=> CallsAnyOf(func.body, {"var-set", "map-set", "map-insert", "map-delete"})
        /\ func.callsExternal
             <=> \E call \in inside :
                   \/ semGetFunctionName(call.function) = "contract-call?"
                   \/ includesDot(semGetFunctionName(call.function))
        /\ func.canFail <=> \E call \in inside : call.canFail

\* the expressions of a statement: the body of a function, the value of a
\* constant, the initial value of a variable
ExpressionsOf(statement) ==
  CASE statement.type = "function-definition" -> statement.body
    [] statement.type = "constant-definition" -> <<statement.value>>
    [] statement.type = "data-var-definition" -> <<statement.initialValue>>
    [] OTHER -> <<>>

\* the calls of the statement, at any depth
CallsOf(statement) == SeqToSet(NodesIn(ExpressionsOf(statement), "function-call"))

\* the names the statement refers to: the identifiers that are one of its
\* expressions or an argument of one of its calls
NamesUsed(statement) ==
  LET identifiers(expressions) ==
        {expressions[i].name :
           i \in {j \in 1..Len(expressions) : expressions[j].type = "identifier"}}
  IN  identifiers(ExpressionsOf(statement))
      \cup UNION {identifiers(call.arguments) : call \in CallsOf(statement)}

\* the names the statement may refer to: the declarations of the program,
\* and the parameters of the statement when a function
NamesDeclared(body, statement) ==
  {body[i].name : i \in 1..Len(body)}
  \cup (IF statement.type = "function-definition"
        THEN {statement.parameters[i].name : i \in 1..Len(statement.parameters)}
        ELSE {})

\* every name used is declared, every callee is a builtin function or
\* declared, and no name is declared twice
WellFormedProgram(body) ==
  /\ \A i \in 1..Len(body) :
       /\ NamesUsed(body[i]) \subseteq NamesDeclared(body, body[i])
       /\ \A call \in CallsOf(body[i]) :
            getFunctionName(call.function)
              \in builtinFunctions \cup {body[j].name : j \in 1..Len(body)}
  /\ \A i, j \in 1..Len(body) : body[i].name = body[j].name => i = j

\* the first arguments of the calls of the callees in the program
Targets(body, callees) ==
  {call.arguments[1].name :
     call \in {c \in UNION {CallsOf(body[i]) : i \in 1..Len(body)} :
                 getFunctionName(c.function) \in callees}}

\* C17: for a program in which every name used is declared, the map passed
\* to map-get? / map-set / map-insert / map-delete and the variable passed to
\* var-get / var-set included, analyze reports no error; the map that is
\* written ends with modified = true, and the variable that is read and
\* written with accessed = true and modified = true.
C17_DeclaredNamesResolve ==
  (/\ apc \in {"done", "static"}
   /\ \A i \in 1..Len(aast.body) :
        \A call \in CallsOf(aast.body[i]) : "arguments" \in DOMAIN call
   /\ WellFormedProgram(aast.body)) =>
    LET env == aresult.typeEnvironment
    IN  /\ aresult.success
        /\ \A name \in Targets(aast.body, {"map-set", "map-insert", "map-delete"}) :
             mapGet(env.maps, name).modified
        /\ \A name \in Targets(aast.body, {"var-set"}) \cap Targets(aast.body, {"var-get"}) :
             /\ mapGet(env.variables, name).accessed
             /\ mapGet(env.variables, name).modified

IssueReported(kind, text) ==
  \E i \in 1..Len(issues) : issues[i].type = kind /\ issues[i].message = text

\* C18: a variable written by var-set and never read by var-get, and a map
\* written by map-set / map-insert / map-delete and never read by map-get?,
\* ends the analysis with modified = true and accessed = false and is
\* reported as write-only.
C18_WriteOnlyReported ==
  (apc = "static" /\ "typeEnvironment" \in DOMAIN aast) =>
    LET env == aast.typeEnvironment
        writtenVariables == Targets(aast.body, {"var-set"}) \ Targets(aast.body, {"var-get"})
        writtenMaps == Targets(aast.body, {"map-set", "map-insert", "map-delete"})
                         \ Targets(aast.body, {"map-get?"})
    IN  /\ \A name \in {n \in writtenVariables : mapHas(env.variables, n)} :
             /\ mapGet(env.variables, name).modified
             /\ ~mapGet(env.variables, name).accessed
             /\ IssueReported("write-only-variable",
                              "Variable '" \o name \o "' is modified but never read")
        /\ \A name \in {n \in writtenMaps : mapHas(env.maps, n)} :
             /\ mapGet(env.maps, name).modified
             /\ ~mapGet(env.maps, name).accessed
             /\ IssueReported("write-only-map",
                              "Map '" \o name \o "' is modified but never read")

\* some call in the body of some function of the program, at any depth, has
\* the name as its callee
CalledSomewhere(body, name) ==
  \E i \in 1..Len(body) :
    /\ body[i].type = "function-definition"
    /\ CallsAnyOf(body[i].body, {name})

\* C19: a private function is reported as unused, by the warning 'is never
\* called' of the semantic analysis and by an issue of type unused-function,
\* exactly when no call in any function body, at any depth, has its name as
\* callee: a private function called from inside a begin, let or if block is
\* not reported.
C19_UnusedPrivateFunctions ==
  (/\ apc = "static"
   /\ "typeEnvironment" \in DOMAIN aast
   /\ \A i, j \in 1..Len(aast.body) : aast.body[i].name = aast.body[j].name => i = j) =>
    \A i \in 1..Len(aast.body) :
      (aast.body[i].type = "function-definition" /\ aast.body[i].visibility = "private") =>
        LET name == aast.body[i].name
            unused == ~CalledSomewhere(aast.body, name)
        IN  /\ unused <=> \E w \in 1..Len(aresult.warnings) :
                             aresult.warnings[w].message
                               = "Private function '" \o name \o "' is never called"
            /\ unused <=> IssueReported("unused-function",
                             "Private function '" \o name \o "' is defined but never called")

\* the functions the program declares
DeclaredFunctions ==
  {aast.body[i].name :
     i \in {j \in 1..Len(aast.body) : aast.body[j].type = "function-definition"}}

\* the node of the function in the call graph
NodeOf(name) ==
  callGraph[CHOOSE i \in 1..Len(callGraph) : callGraph[i].functionName = name]

\* C20: the call graph has exactly one node for every declared function; when
\* the body of f holds a call of another declared function g, g is in the
\* calls of f and f in the calledBy of g; and g is in the calls of f exactly
\* when f is in the calledBy of g.
C20_CallGraphEdges ==
  (/\ apc = "static"
   /\ "typeEnvironment" \in DOMAIN aast
   /\ \A i, j \in 1..Len(aast.body) : aast.body[i].name = aast.body[j].name => i = j) =>
    /\ Len(callGraph) = Cardinality(DeclaredFunctions)
    /\ {callGraph[i].functionName : i \in 1..Len(callGraph)} = DeclaredFunctions
    /\ \A f, g \in DeclaredFunctions :
         /\ (f # g /\ CallsAnyOf(findFunctionDefinition(aast, f).body, {g})) =>
              /\ g \in SeqToSet(NodeOf(f).calls)
              /\ f \in SeqToSet(NodeOf(g).calledBy)
         /\ g \in SeqToSet(NodeOf(f).calls) <=> f \in SeqToSet(NodeOf(g).calledBy)

\* the functions of the program whose body holds, at any depth, a call of
\* one of the callees with the name as first argument
FunctionsCalling(body, callees, name) ==
  {body[i].name :
     i \in {j \in 1..Len(body) :
              /\ body[j].type = "function-definition"
              /\ \E call \in CallsOf(body[j]) :
                   /\ getFunctionName(call.function) \in callees
                   /\ Len(call.arguments) > 0
                   /\ call.arguments[1].type = "identifier"
                   /\ call.arguments[1].name = name}}

\* C21: when two or more distinct functions write the same variable or map,
\* the data-flow node of that entity lists each of them as a writer and
\* exactly one state-inconsistency vulnerability, of risk level low, is
\* reported for the entity.
C21_MultipleWritersReported ==
  (apc = "static" /\ "typeEnvironment" \in DOMAIN aast) =>
    LET env == aast.typeEnvironment
        entities == {env.variables[i].name : i \in 1..Len(env.variables)}
                    \cup {env.maps[i].name : i \in 1..Len(env.maps)}
        writersOf(name) ==
          FunctionsCalling(aast.body, {"var-set", "map-set", "map-insert", "map-delete"}, name)
    IN  \A name \in entities :
          Cardinality(writersOf(name)) >= 2 =>
            /\ \E i \in 1..Len(dataFlowGraph) :
                 /\ dataFlowGraph[i].name = name
                 /\ writersOf(name) \subseteq SeqToSet(dataFlowGraph[i].writers)
            /\ LET reported ==
                     SelectSeq(OfType(vulnerabilities, "state-inconsistency"),
                               LAMBDA v : Contains(v.message, "'" \o name \o "'"))
               IN  /\ Len(reported) = 1
                   /\ reported[1].riskLevel = "low"

\* the calls of +, - and * in the function bodies of the program, at any
\* depth, function by function
ArithmeticCalls(ast) ==
  LET bodies == functionBodies(ast)
  IN  concatAll([i \in 1..Len(bodies) |->
        SelectSeq(NodesIn(bodies[i], "function-call"),
                  LAMBDA call : getFunctionName(call.function) \in {"+", "-", "*"})])

\* C22: every call of +, - or * in a function body, at any depth, gives one
\* integer-overflow vulnerability of risk level medium: a program has as many
\* overflow findings as arithmetic calls in its function bodies.
C22_OverflowPerArithmeticCall ==
  (apc = "static" /\ "typeEnvironment" \in DOMAIN aast) =>
    LET reported == OfType(vulnerabilities, "integer-overflow")
    IN  /\ Len(reported) = Len(ArithmeticCalls(aast))
        /\ \A i \in 1..Len(reported) : reported[i].riskLevel = "medium"

C28_NoCycle ==
  /\ apc = "done" => ~stackOverflows(aast)
  /\ apc # "threw"

\* the errors or warnings of a result whose message contains the text
Reported(found, text) == SelectSeq(found, LAMBDA e : Contains(e.message, text))

\* C24: in the result of analyze, a duplicate-definition error and an
\* undefined-identifier error carry different codes, and so do an
\* unused-function warning and an unused-constant warning
C24_CodePerKind ==
  apc = "done" =>
    /\ \A i \in 1..Len(Reported(aresult.errors, "is already defined")) :
         \A j \in 1..Len(Reported(aresult.errors, "Undefined identifier")) :
           Reported(aresult.errors, "is already defined")[i].code
             # Reported(aresult.errors, "Undefined identifier")[j].code
    /\ \A i \in 1..Len(Reported(aresult.warnings, "is never called")) :
         \A j \in 1..Len(Reported(aresult.warnings, "is never used")) :
           Reported(aresult.warnings, "is never called")[i].code
             # Reported(aresult.warnings, "is never used")[j].code

\* a call, none of whose arguments is a call
FlatCall(expr) ==
  /\ expr.type = "function-call"
  /\ \A i \in 1..Len(expr.arguments) : expr.arguments[i].type # "function-call"

CalleeOf(call) == IF call.function.type = "identifier" THEN call.function.name ELSE ""

External(call) ==
  /\ call.type = "function-call"
  /\ call.isExternal \/ CalleeOf(call) = "contract-call?"

Mutating(call) ==
  /\ call.type = "function-call"
  /\ CalleeOf(call) \in {"var-set", "map-set", "map-insert", "map-delete"}

\* some external call stands strictly before some state-mutating call
ExternalBeforeMutation(body) ==
  \E i \in 1..Len(body) : \E j \in (i + 1)..Len(body) :
    External(body[i]) /\ Mutating(body[j])

FunctionsOf(ast) == SelectSeq(ast.body, LAMBDA s : s.type = "function-definition")

\* C25: in a program whose functions have flat sequences of calls as bodies,
\* the reentrancy findings are one for each function in which some external
\* call stands strictly before some state-mutating call, in the order of the
\* functions, and none for any other function
C25_ReentrancyIffExternalFirst ==
  (/\ apc = "static"
   /\ \A i \in 1..Len(FunctionsOf(aast)) :
        \A j \in 1..Len(FunctionsOf(aast)[i].body) : FlatCall(FunctionsOf(aast)[i].body[j])) =>
    LET reported == SelectSeq(FunctionsOf(aast), LAMBDA f : ExternalBeforeMutation(f.body))
        found == OfCategory(vulnerabilities, "reentrancy")
    IN  /\ Len(found) = Len(reported)
        /\ \A i \in 1..Len(found) :
             found[i].message
               = "Function '" \o reported[i].name \o "' may be vulnerable to reentrancy attacks"

\* of two functions, the one that calls out before it writes is reported and
\* the one that writes before it calls out is not
C25_OrderDecides ==
  /\ apc = "static"
  /\ Len(FunctionsOf(aast)) = 2
  /\ ExternalBeforeMutation(FunctionsOf(aast)[1].body)
  /\ ~ExternalBeforeMutation(FunctionsOf(aast)[2].body)
  /\ \E i, j \in 1..Len(FunctionsOf(aast)[2].body) :
       /\ i < j
       /\ Mutating(FunctionsOf(aast)[2].body[i])
       /\ External(FunctionsOf(aast)[2].body[j])
  /\ Len(OfCategory(vulnerabilities, "reentrancy")) = 1

\* the expressions a statement hands to analyzeExpression
Analyzed(statement) ==
  CASE statement.type = "function-definition" -> statement.body
    [] statement.type = "constant-definition" -> <<statement.value>>
    [] statement.type = "data-var-definition" -> <<statement.initialValue>>
    [] OTHER -> <<>>

\* every such expression of the program is an identifier or a literal
Atoms(body) ==
  \A i \in 1..Len(body) : \A j \in 1..Len(Analyzed(body[i])) :
    Analyzed(body[i])[j].type \in {"identifier", "uint-literal", "bool-literal"}

\* the places <<i, j>> of the identifiers of the program
IdentifiersOf(body) ==
  {p \in (1..Len(body)) \X (1..MaxStmts) :
     /\ p[2] <= Len(Analyzed(body[p[1]]))
     /\ Analyzed(body[p[1]])[p[2]].type = "identifier"}

Declares(body, type, name) ==
  \E i \in 1..Len(body) : body[i].type = type /\ body[i].name = name

\* the binding the identifier at place p is to resolve to: a parameter of the
\* function it stands in, else a constant, a variable, a function of its
\* name, else a contract reference if the name has a dot, else nothing
ResolvesTo(body, p) ==
  LET name == Analyzed(body[p[1]])[p[2]].name
      statement == body[p[1]]
  IN  IF /\ statement.type = "function-definition"
         /\ \E k \in 1..Len(statement.parameters) : statement.parameters[k].name = name
      THEN "local"
      ELSE IF Declares(body, "constant-definition", name) THEN "constants"
      ELSE IF Declares(body, "data-var-definition", name) THEN "variables"
      ELSE IF Declares(body, "function-definition", name) THEN "functions"
      ELSE IF \E k \in 1..Len(name) : SubSeq(name, k, k) = "." THEN "contract"
      ELSE "undefined"

KindIn(value, scope) ==
  CASE value.type = "bool-literal" -> "bool"
    [] value.type = "uint-literal" -> "uint"
    [] value.type = "identifier" /\ value.name \in DOMAIN scope -> scope[value.name]
    [] OTHER -> "uint"

\* an analyzed expression made of reads, literals and lets is annotated as
\* lexical scoping asks: a read of a name in scope is bound to a local of the
\* kind the innermost binding of the name has, a read of any other name is
\* bound to no local; the value of a binding is read in the scope around the
\* let, and the body in that scope extended by the bindings
RECURSIVE LexicallyScoped(_, _)
LexicallyScoped(expr, scope) ==
  CASE expr.type = "identifier" ->
         IF expr.name \in DOMAIN scope
         THEN /\ "resolvedBinding" \in DOMAIN expr
              /\ expr.resolvedBinding.ref = "local"
              /\ expr.resolvedType.kind = scope[expr.name]
         ELSE "resolvedBinding" \notin DOMAIN expr
    [] expr.type = "let-expression" ->
         LET inner == [n \in DOMAIN scope \cup {expr.bindings[i].name :
                                                   i \in 1..Len(expr.bindings)} |->
                         IF \E i \in 1..Len(expr.bindings) : expr.bindings[i].name = n
                         THEN KindIn(expr.bindings[CHOOSE i \in 1..Len(expr.bindings) :
                                                     expr.bindings[i].name = n].value, scope)
                         ELSE scope[n]]
         IN  /\ \A i \in 1..Len(expr.bindings) :
                  LexicallyScoped(expr.bindings[i].value, scope)
             /\ \A i \in 1..Len(expr.body) : LexicallyScoped(expr.body[i], inner)
    [] OTHER -> TRUE

\* the number of reads in the expressions that are bound to nothing
RECURSIVE Unbound(_, _)
Unbound(exprs, i) ==
  IF i > Len(exprs) THEN 0
  ELSE Unbound(exprs, i + 1) +
       (CASE exprs[i].type = "identifier" ->
               IF "resolvedBinding" \in DOMAIN exprs[i] THEN 0 ELSE 1
          [] exprs[i].type = "let-expression" ->
               Unbound([k \in 1..Len(exprs[i].bindings) |-> exprs[i].bindings[k].value], 1)
               + Unbound(exprs[i].body, 1)
          [] OTHER -> 0)

\* the program is the function g (x uint) alone, with a let in its body
LetProgram(ast) ==
  /\ Len(ast.body) = 1
  /\ ast.body[1].type = "function-definition"
  /\ \E i \in 1..Len(ast.body[1].body) : ast.body[1].body[i].type = "let-expression"

\* C27: when analyze has returned on a function whose body is made of lets
\* and reads, every read is resolved by lexical scoping: a binding of a let is
\* visible in the body of that let only, where it shadows an outer binding of
\* its name; after the let and in a sibling let the name has the binding of
\* the enclosing scope or none, and there is one undefined-identifier error
\* for each read that is bound to nothing
C27_LetScoping ==
  (apc = "done" /\ LetProgram(aast)) =>
    /\ \A i \in 1..Len(aast.body[1].body) :
         LexicallyScoped(aast.body[1].body[i], [n \in {"x"} |-> "uint"])
    /\ Len(Reported(aresult.errors, "Undefined identifier")) = Unbound(aast.body[1].body, 1)
    /\ Len(aresult.errors) = Unbound(aast.body[1].body, 1)

\* a let binds the name of the parameter x to a truth value and reads it, and
\* the read of x after the let has the type of the parameter
C27_ShadowedInBodyOnly ==
  /\ apc = "done" /\ LetProgram(aast)
  /\ Len(aast.body[1].body) = 2
  /\ aast.body[1].body[1].type = "let-expression"
  /\ aast.body[1].body[1].bindings[1].name = "x"
  /\ aast.body[1].body[1].body[1].type = "identifier"
  /\ aast.body[1].body[1].body[1].name = "x"
  /\ aast.body[1].body[1].body[1].resolvedType.kind = "bool"
  /\ aast.body[1].body[2].type = "identifier"
  /\ aast.body[1].body[2].name = "x"
  /\ aast.body[1].body[2].resolvedType.kind = "uint"

\* a character that starts no token, no comment and no white space
Unrecognized(c) ==
  /\ c \notin {" ", "\r", "\t", "\n", "(", ")", "{", "}", ".", ",", ":", ";", "\"", "'"}
  /\ c \notin Digits \cup LowerAlpha \cup UpperAlpha
  /\ c \notin {"-", "_", "!", "?", "+", "<", ">", "=", "/", "%", "*"}

\* the source with every unrecognized character replaced by a space
RECURSIVE Blanked(_)
Blanked(src) ==
  IF src = "" THEN ""
  ELSE (IF Unrecognized(SubSeq(src, 1, 1)) THEN " " ELSE SubSeq(src, 1, 1))
       \o Blanked(SubSeq(src, 2, Len(src)))

TypesAndValues(tokens) ==
  [i \in 1..Len(tokens) |-> [type |-> tokens[i].type, value |-> tokens[i].value]]

\* C29: the types and values of the tokens tokenize returns for a source are
\* those it returns for the source with every unrecognized character replaced
\* by a space
C29_UnrecognizedSkippedAlone ==
  lexpc = "done" =>
    TypesAndValues(lexer.tokens)
      = TypesAndValues(tokenize(LexerNew, Blanked(lexer.source)).tokens)

\* the line and the 1-based column of the character at index offset
LineOf(src, offset) ==
  1 + Cardinality({i \in 1..offset : SubSeq(src, i, i) = "\n"})

ColumnOf(src, offset) ==
  LET newlines == {i \in 1..offset : SubSeq(src, i, i) = "\n"}
  IN  IF newlines = {} THEN offset + 1
      ELSE offset + 1 - (CHOOSE i \in newlines : \A j \in newlines : j <= i)

\* C30: every token tokenize returns, the end-of-file token apart, has as
\* location.offset the index of the first character of its raw text in the
\* source, and as location.line and location.column the line and the 1-based
\* column of that character
C30_LocationOfFirstCharacter ==
  lexpc = "done" =>
    \A i \in 1..Len(lexer.tokens) :
      lexer.tokens[i].type # "EOF" =>
        LET token == lexer.tokens[i]
            offset == token.location.offset
        IN  /\ substring(lexer.source, offset, offset + Len(token.raw)) = token.raw
            /\ token.location.line = LineOf(lexer.source, offset)
            /\ token.location.column = ColumnOf(lexer.source, offset)

====
